---- MODULE Spec2Model ----
(***************************************************************************)
(* Blackbird voice <-> birdsong codec (lukketsvane/blackbird).             *)
(*                                                                         *)
(* The repository holds several generations of one React component, each   *)
(* with its own encodeAudio / decodeAudio:                                 *)
(*   "stereo"   src/app/api/upload/route.ts  (secondary-channel embed)     *)
(*   "plain"    src/app/api/upload/route.ts  (second copy, no embed)       *)
(*   "ultra"    src/app/page.tsx             (19 kHz ultrasonic embed)     *)
(*   "phase"    src/unnamed/part_001         (phase-channel embed)         *)
(*   "basic"    src/unnamed/part_000         (no embed, realtime mode)     *)
(*                                                                         *)
(* Numbers.  The code computes in IEEE floating point.  The model computes *)
(* in decimal floating point with four significant digits: a number is a   *)
(* record [m, e] standing for m * 10^e, every operation rounds its result  *)
(* to four digits, and NaN and the infinities are values of their own.     *)
(* Values such as 0.5, 0.9, 0.001 and 1e-7 are exact, so the equalities    *)
(* the codec relies on (x * 0.9 / x = 0.9) hold as they do in the code.    *)
(* Math.sin, Math.cos, Math.atan2 and Math.sqrt are computed to the same   *)
(* four digits (Bhaskara's rational sine, a two-term arctangent, integer   *)
(* square root).  Kernel lengths are capped at KernelCap taps.             *)
(***************************************************************************)
EXTENDS Integers, Sequences, FiniteSets, TLC

VARIABLES
  variant,          \* which generation of the component is running
  pc,               \* what the component did last
  audioBuffer,      \* the AudioBuffer handed to encodeAudio / decodeAudio
  result,           \* what encodeAudio / decodeAudio returned or threw
  state,            \* React state: "idle", "processing", "playing", "realtime"
  processedBuffer,  \* React state: the buffer offered for download
  mode,             \* React state: "encode" or "decode"
  law,              \* one contour value carried through synthesis and demodulation
  kernel,           \* what a filter constructor returned or threw
  rt,               \* the closure of the realtime callback
  wav,              \* the bytes of the file handleDownload has written
  tone,             \* a complex tone and what the FM demodulator made of it
  norm,             \* a buffer and what a normaliser made of it
  ui,               \* taps, timers and capture sessions: refs and pending callbacks
  stage             \* one stage of a pipeline run alone: its input and what it produced

vars == <<variant, pc, audioBuffer, result, state, processedBuffer, mode, law, kernel, rt, wav, tone, norm, ui, stage>>

(***************************************************************************)
(* Floating point                                                          *)
(***************************************************************************)
Abs(n) == IF n < 0 THEN -n ELSE n

Sgn(n) == IF n < 0 THEN -1 ELSE IF n > 0 THEN 1 ELSE 0

NumDigits(n) ==
  IF n < 10 THEN 1 ELSE IF n < 100 THEN 2 ELSE IF n < 1000 THEN 3
  ELSE IF n < 10000 THEN 4 ELSE IF n < 100000 THEN 5 ELSE IF n < 1000000 THEN 6
  ELSE IF n < 10000000 THEN 7 ELSE IF n < 100000000 THEN 8
  ELSE IF n < 1000000000 THEN 9 ELSE 10

TrailingZeros(n) ==
  IF n % 10 # 0 THEN 0 ELSE IF n % 100 # 0 THEN 1 ELSE IF n % 1000 # 0 THEN 2
  ELSE IF n % 10000 # 0 THEN 3 ELSE 4

Zero == [m |-> 0, e |-> 0]

NaN == [m |-> 0, e |-> 999]

Inf(s) == [m |-> s, e |-> 999]

IsNaN(x) == x.e = 999 /\ x.m = 0

IsInf(x) == x.e = 999 /\ x.m # 0

IsFinite(x) == x.e # 999

\* s * q * 10^e with z trailing zeros of q removed; magnitudes below 1e-40
\* flush to zero
Pack(s, q, e, z) ==
  IF e + z < -40 THEN Zero ELSE [m |-> s * (q \div 10^z), e |-> e + z]

Strip(s, q, e) == Pack(s, q, e, TrailingZeros(q))

\* a without its last `drop` digits, rounded half away from zero
Round(s, a, e, drop) ==
  Strip(s, IF drop > 0 THEN (a + (10^drop \div 2)) \div 10^drop ELSE a, e + drop)

Excess(k) == IF k > 4 THEN k - 4 ELSE 0

\* m * 10^e rounded to four significant digits, in canonical form
Norm(m, e) ==
  IF m = 0 THEN Zero ELSE Round(Sgn(m), Abs(m), e, Excess(NumDigits(Abs(m))))

\* the decimal literal m * 10^e
D(m, e) == Norm(m, e)

FromInt(n) == Norm(n, 0)

Widen(x, k) == [m |-> x.m * 10^k, e |-> x.e - k]

\* the same value with a four-digit mantissa
Expand(x) == Widen(x, 4 - NumDigits(Abs(x.m)))

FNeg(x) == IF IsFinite(x) THEN [m |-> -x.m, e |-> x.e] ELSE IF IsNaN(x) THEN NaN ELSE Inf(-x.m)

FAbs(x) == IF IsFinite(x) THEN [m |-> Abs(x.m), e |-> x.e] ELSE IF IsNaN(x) THEN NaN ELSE Inf(1)

FMul(x, y) ==
  IF IsNaN(x) \/ IsNaN(y) THEN NaN
  ELSE IF IsInf(x) \/ IsInf(y)
       THEN IF x.m = 0 \/ y.m = 0 THEN NaN ELSE Inf(Sgn(x.m) * Sgn(y.m))
  ELSE Norm(x.m * y.m, x.e + y.e)

\* hi + lo for four-digit mantissas, hi's exponent d above lo's
AlignedSum(hi, lo, d) ==
  Norm(IF d > 5 THEN hi.m ELSE hi.m * 10^d + lo.m, IF d > 5 THEN hi.e ELSE lo.e)

ExpandedSum(a, b) ==
  AlignedSum(IF a.e >= b.e THEN a ELSE b, IF a.e >= b.e THEN b ELSE a, Abs(a.e - b.e))

FAdd(x, y) ==
  IF IsNaN(x) \/ IsNaN(y) THEN NaN
  ELSE IF IsInf(x) THEN (IF IsInf(y) /\ y.m # x.m THEN NaN ELSE x)
  ELSE IF IsInf(y) THEN y
  ELSE IF x.m = 0 THEN y
  ELSE IF y.m = 0 THEN x
  ELSE ExpandedSum(Expand(x), Expand(y))

FSub(x, y) == FAdd(x, FNeg(y))

\* a / y for a four-digit mantissa of a
ExpandedQuotient(a, y) ==
  Norm(Sgn(a.m) * Sgn(y.m) * ((Abs(a.m) * 100000) \div Abs(y.m)), a.e - 5 - y.e)

FDiv(x, y) ==
  IF IsNaN(x) \/ IsNaN(y) THEN NaN
  ELSE IF IsInf(x) THEN (IF IsInf(y) THEN NaN ELSE Inf(x.m * (IF y.m < 0 THEN -1 ELSE 1)))
  ELSE IF IsInf(y) THEN Zero
  ELSE IF y.m = 0 THEN (IF x.m = 0 THEN NaN ELSE Inf(Sgn(x.m)))
  ELSE IF x.m = 0 THEN Zero
  ELSE ExpandedQuotient(Expand(x), y)

\* x < y, x > y as JavaScript compares: false when either is NaN
FLt(x, y) ==
  /\ ~IsNaN(x)
  /\ ~IsNaN(y)
  /\ IF IsInf(x) \/ IsInf(y)
     THEN (IsInf(x) /\ x.m < 0 /\ x # y) \/ (IsInf(y) /\ y.m > 0 /\ x # y)
     ELSE FSub(x, y).m < 0

FGt(x, y) == FLt(y, x)

FLe(x, y) == ~IsNaN(x) /\ ~IsNaN(y) /\ ~FLt(y, x)

\* Math.floor of a number of magnitude below 1e9, as an integer
FloorInt(x) ==
  IF x.e >= 0 THEN x.m * 10^(x.e)
  ELSE IF -x.e > 9 THEN (IF x.m < 0 THEN -1 ELSE 0)
  ELSE x.m \div 10^(-x.e)

One == [m |-> 1, e |-> 0]

Two == [m |-> 2, e |-> 0]

PI == [m |-> 3142, e |-> -3]

TwoPI == [m |-> 6284, e |-> -3]

HalfPI == [m |-> 1571, e |-> -3]

QuarterPI == [m |-> 7855, e |-> -4]

\* Bhaskara's approximation of sin on [0, pi], v = t * (pi - t), times s
Bhaskara(v, s) ==
  FMul(FromInt(s),
       FDiv(FMul(FromInt(16), v), FSub(FMul(FromInt(5), FMul(PI, PI)), FMul(FromInt(4), v))))

ClampedBhaskara(u, s) == Bhaskara(IF u.m < 0 THEN Zero ELSE u, s)

SinHalfTurn(t, s) == ClampedBhaskara(FMul(t, FSub(PI, t)), s)

\* sin r for r in [0, 2 pi): the second half turn mirrors the first
SinTurn(r, first) ==
  SinHalfTurn(IF first THEN r ELSE FSub(r, PI), IF first THEN 1 ELSE -1)

SinReduced(r) == IF r.m < 0 THEN Zero ELSE SinTurn(r, FLe(r, PI))

\* Math.sin
Sin(x) ==
  IF ~IsFinite(x) THEN NaN
  ELSE SinReduced(FSub(x, FMul(FromInt(FloorInt(FDiv(x, TwoPI))), TwoPI)))

\* Math.cos
Cos(x) == Sin(FAdd(x, HalfPI))

\* arctangent on [0, 1]
AtanUnit(a) == FAdd(FMul(a, QuarterPI), FMul(D(273, -3), FMul(a, FSub(One, a))))

\* arctangent of the larger over the smaller is the complement
AtanComplement(r, le) == IF le THEN r ELSE FSub(HalfPI, r)

AtanOrdered(ay, ax, le) ==
  AtanComplement(AtanUnit(FDiv(IF le THEN ay ELSE ax, IF le THEN ax ELSE ay)), le)

AtanFirstQuadrant(ay, ax) ==
  IF IsInf(ay) /\ IsInf(ax) THEN QuarterPI ELSE AtanOrdered(ay, ax, FLe(ay, ax))

AtanSigned(y, r1) == IF y.m < 0 THEN FNeg(r1) ELSE r1

AtanQuadrant(y, x, r0) == AtanSigned(y, IF x.m < 0 THEN FSub(PI, r0) ELSE r0)

\* Math.atan2; atan2(0, 0) = 0
Atan2(y, x) ==
  IF IsNaN(y) \/ IsNaN(x) THEN NaN
  ELSE IF y.m = 0 /\ x.m = 0 THEN Zero
  ELSE AtanQuadrant(y, x, AtanFirstQuadrant(FAbs(y), FAbs(x)))

RECURSIVE ISqrtIn(_, _, _)
ISqrtIn(n, lo, hi) ==
  IF lo >= hi THEN lo
  ELSE IF ((lo + hi + 1) \div 2) * ((lo + hi + 1) \div 2) <= n
       THEN ISqrtIn(n, (lo + hi + 1) \div 2, hi)
       ELSE ISqrtIn(n, lo, ((lo + hi + 1) \div 2) - 1)

\* the root of mm * 10^ee, ee even
EvenRoot(mm, ee) == Norm(ISqrtIn(mm * 10000, 0, 31622), (ee - 4) \div 2)

ExpandedRoot(a) ==
  EvenRoot(IF a.e % 2 # 0 THEN a.m * 10 ELSE a.m, IF a.e % 2 # 0 THEN a.e - 1 ELSE a.e)

\* Math.sqrt
Sqrt(x) ==
  IF IsNaN(x) THEN NaN
  ELSE IF x.m < 0 THEN NaN
  ELSE IF IsInf(x) THEN x
  ELSE IF x.m = 0 THEN Zero
  ELSE ExpandedRoot(Expand(x))

(***************************************************************************)
(* Buffers                                                                 *)
(***************************************************************************)
\* a Float32Array of n elements, element i (from 0) holding F(i)
Float32Array(n, F(_)) == [k \in 1..n |-> F(k - 1)] \o <<>>

\* a[i], indices from 0; a read outside the array yields undefined, which
\* a Float32Array store converts to NaN
At(a, i) == IF i >= 0 /\ i < Len(a) THEN a[i + 1] ELSE NaN

Zeros(n) == Float32Array(n, LAMBDA i: Zero)

\* AudioBuffer: sampleRate, length and one Float32Array per channel
AudioBuffer(chans, rate) ==
  [numberOfChannels |-> Len(chans), length |-> Len(chans[1]), sampleRate |-> rate, channels |-> chans]

getChannelData(b, c) == b.channels[c + 1]

\* ctx.createBuffer(numberOfChannels, length, sampleRate) followed by
\* getChannelData(c).set(...) for each channel.  The Web Audio API raises
\* NotSupportedError for a length of 0.
createBuffer(chans, length, rate) ==
  IF length = 0
  THEN [threw |-> "NotSupportedError", buffer |-> [numberOfChannels |-> 0, length |-> 0, sampleRate |-> rate, channels |-> <<>>]]
  ELSE [threw |-> "none", buffer |-> [numberOfChannels |-> Len(chans), length |-> length, sampleRate |-> rate, channels |-> chans]]

\* kernel lengths of the source, capped to the nearest odd length <= KernelCap
KernelCap == 5

Cap(len) == IF len <= KernelCap THEN len ELSE 2 * ((KernelCap - 1) \div 2) + 1

(***************************************************************************)
(* Filter design and convolution                                           *)
(***************************************************************************)
\* the Hamming window of createHilbertFilter: 0.54 - 0.46 cos(2 PI i / (length - 1))
Hamming(i, length) ==
  FSub(D(54, -2), FMul(D(46, -2), Cos(FDiv(FMul(TwoPI, FromInt(i)), FromInt(length - 1)))))

\* 2 / (PI n) at every offset but the centre
HilbertTapEveryOffset(n) == IF n = 0 THEN Zero ELSE FDiv(Two, FMul(PI, FromInt(n)))

\* 2 / (PI n) for odd n, else 0
HilbertTap(n) ==
  IF n = 0 THEN Zero ELSE IF n % 2 # 0 THEN FDiv(Two, FMul(PI, FromInt(n))) ELSE Zero

createHilbertFilter(length) ==
  Float32Array(length, LAMBDA i: FMul(HilbertTap(i - (length \div 2)), Hamming(i, length)))

RECURSIVE SumFrom(_, _, _)
\* let sum = acc; for (i = from; i < a.length; i++) sum += a[i]
SumFrom(a, from, acc) ==
  IF from >= Len(a) THEN acc ELSE SumFrom(a, from + 1, FAdd(acc, At(a, from)))

\* for (i...) a[i] /= d
DivideAll(a, d) == Float32Array(Len(a), LAMBDA i: FDiv(At(a, i), d))

\* the windowed sinc taps of createSincFilter before normalisation; fc is
\* cutoffHz / sampleRate
SincTap(fc, n) ==
  IF n = 0 THEN FMul(TwoPI, fc)
  ELSE FDiv(Sin(FMul(FMul(TwoPI, fc), FromInt(n))), FromInt(n))

\* the Blackman window: 0.42 - 0.5 cos(2 PI i / (length - 1)) + 0.08 cos(4 PI i / (length - 1))
Blackman(i, length) ==
  FAdd(FSub(D(42, -2),
            FMul(D(5, -1), Cos(FDiv(FMul(TwoPI, FromInt(i)), FromInt(length - 1))))),
       FMul(D(8, -2), Cos(FDiv(FMul(FMul(FromInt(4), PI), FromInt(i)), FromInt(length - 1)))))

SincTaps(fc, length) ==
  Float32Array(length, LAMBDA i: FMul(SincTap(fc, i - (length \div 2)), Blackman(i, length)))

\* the last loops of createSincFilter: divide every tap by the sum of the taps
UnitSum(filter) == DivideAll(filter, SumFrom(filter, 0, Zero))

createSincFilter(cutoffHz, length, sampleRate) ==
  UnitSum(SincTaps(FDiv(cutoffHz, FromInt(sampleRate)), length))

RECURSIVE ConvolveSum(_, _, _, _, _)
\* the inner loop of convolve for output sample i, from tap j on
ConvolveSum(signal, filter, i, j, sum) ==
  IF j >= Len(filter) THEN sum
  ELSE ConvolveSum(signal, filter, i, j + 1,
                   IF i - (Len(filter) \div 2) + j >= 0 /\ i - (Len(filter) \div 2) + j < Len(signal)
                   THEN FAdd(sum, FMul(At(signal, i - (Len(filter) \div 2) + j), At(filter, j)))
                   ELSE sum)

\* a convolution whose first tap, not its middle tap, meets sample i
convolveFromFirstTap(signal, filter) ==
  Float32Array(Len(signal), LAMBDA i: ConvolveSum(signal, filter, i + (Len(filter) \div 2), 0, Zero))

convolve(signal, filter) ==
  Float32Array(Len(signal), LAMBDA i: ConvolveSum(signal, filter, i, 0, Zero))

\* acc if |x| > acc is false, |x| otherwise
LargerAbs(x, acc) == IF FGt(x, acc) THEN x ELSE acc

RECURSIVE MaxAbsFrom(_, _, _)
\* let max = acc; for (i...) { abs = Math.abs(a[i]); if (abs > max) max = abs }
MaxAbsFrom(a, from, acc) ==
  IF from >= Len(a) THEN acc ELSE MaxAbsFrom(a, from + 1, LargerAbs(FAbs(At(a, from)), acc))

MaxAbs(a) == MaxAbsFrom(a, 0, Zero)

\* if (max > 0) for (i...) a[i] *= target / max
ScaleBy(a, target, max) ==
  IF FGt(max, Zero)
  THEN Float32Array(Len(a), LAMBDA i: FMul(At(a, i), FDiv(target, max)))
  ELSE a

\* peak normalisation to target
ScaleToPeak(a, target) == ScaleBy(a, target, MaxAbs(a))

(***************************************************************************)
(* Constants of the component                                              *)
(***************************************************************************)
SAMPLE_RATE == 44100

FSCALE == 24000

PHASE_MULT == 6

SHIFT_FREQ == D(-5, -3)

HIDDEN_AMPLITUDE == D(1, -3)

ULTRASONIC_CARRIER == 19000

ULTRASONIC_AMPLITUDE == D(25, -2)

PHASE_MOD_INDEX == D(15, -2)

Variants == {"stereo", "plain", "ultra", "phase", "basic"}

(***************************************************************************)
(* Analysis stages shared by the encoders                                  *)
(***************************************************************************)
\* the real part of (re + j im) * exp(j phase); the "basic" variant rotates
\* the other way
RotateI(v, re, im, cosP, sinP) ==
  IF v = "basic"
  THEN FAdd(FMul(re, cosP), FMul(im, sinP))
  ELSE FSub(FMul(re, cosP), FMul(im, sinP))

\* the imaginary part
RotateQ(v, re, im, cosP, sinP) ==
  IF v = "basic"
  THEN FSub(FMul(im, cosP), FMul(re, sinP))
  ELSE FAdd(FMul(re, sinP), FMul(im, cosP))

RotateIBy(v, re, im, phase) == RotateI(v, re, im, Cos(phase), Sin(phase))

RotateQBy(v, re, im, phase) == RotateQ(v, re, im, Cos(phase), Sin(phase))

\* for (i...) { phase = omega * i; out[i] = re[i] * cosP -/+ im[i] * sinP }
ShiftI(v, re, im, omega) ==
  Float32Array(Len(re), LAMBDA i: RotateIBy(v, At(re, i), At(im, i), FMul(omega, FromInt(i))))

ShiftQ(v, re, im, omega) ==
  Float32Array(Len(re), LAMBDA i: RotateQBy(v, At(re, i), At(im, i), FMul(omega, FromInt(i))))

\* the FM demodulation loop with the cross product taken the other way
\* round: Q[i] * I[i-1] - I[i] * Q[i-1]
FmDemodLoopConjugate(I, Q) ==
  Float32Array(Len(I), LAMBDA i:
    IF i >= 1
    THEN Atan2(FSub(FMul(At(Q, i), At(I, i - 1)), FMul(At(I, i), At(Q, i - 1))),
               FAdd(FMul(At(I, i), At(I, i - 1)), FMul(At(Q, i), At(Q, i - 1))))
    ELSE Zero)

\* FM demodulation: fmDemod[i] = atan2(cross, dot) for i >= 1, fmDemod[0] as
\* the zero the array was created with
FmDemodLoop(I, Q) ==
  Float32Array(Len(I), LAMBDA i:
    IF i >= 1
    THEN Atan2(FSub(FMul(At(I, i), At(Q, i - 1)), FMul(At(Q, i), At(I, i - 1))),
               FAdd(FMul(At(I, i), At(I, i - 1)), FMul(At(Q, i), At(Q, i - 1))))
    ELSE Zero)

\* fmDemod[0] = fmDemod[1]: a store into element 0 (dropped when the array is
\* empty) of what element 1 reads as; the "basic" encoder has no such line
CopyFirst(v, fm) ==
  IF v = "basic" THEN fm
  ELSE Float32Array(Len(fm), LAMBDA i: IF i = 0 THEN At(fm, 1) ELSE At(fm, i))

\* AM demodulation: amDemod[i] = sqrt(I[i]^2 + Q[i]^2)
AmDemod(I, Q) ==
  Float32Array(Len(I), LAMBDA i:
    Sqrt(FAdd(FMul(At(I, i), At(I, i)), FMul(At(Q, i), At(Q, i)))))

\* what the synthesizer adds to its phase for the contour value x:
\* freq = (x * 2 * PI) / rate; phase += freq * FSCALE
SynthIncrement(x, rate) ==
  FMul(FDiv(FMul(FMul(x, Two), PI), FromInt(rate)), FromInt(FSCALE))

\* an accumulator brought back into one turn after each addition
AccumulateWrapped(phase, increment) ==
  FSub(FAdd(phase, increment),
       FMul(FromInt(FloorInt(FDiv(FAdd(phase, increment), TwoPI))), TwoPI))

\* phase += increment
Accumulate(phase, increment) == FAdd(phase, increment)

RECURSIVE SynthLoop(_, _, _, _, _, _)
\* phase += SynthIncrement(fm[i]); out[i] = sin(phase * PHASE_MULT) * am[i];
\* the loop leaves its samples in out and its accumulator in phase
SynthLoop(fm, am, rate, i, phase, out) ==
  IF i >= Len(fm) THEN [phase |-> phase, out |-> out]
  ELSE SynthLoop(fm, am, rate, i + 1, Accumulate(phase, SynthIncrement(At(fm, i), rate)),
                 Append(out, FMul(Sin(FMul(Accumulate(phase, SynthIncrement(At(fm, i), rate)),
                                           FromInt(PHASE_MULT))),
                                  At(am, i))))

\* shift to baseband and 140 Hz lowpass: filteredI, filteredQ
Baseband(v, realPart, imagPart, lpf140) ==
  [I |-> convolve(ShiftI(v, realPart, imagPart, FMul(TwoPI, SHIFT_FREQ)), lpf140),
   Q |-> convolve(ShiftQ(v, realPart, imagPart, FMul(TwoPI, SHIFT_FREQ)), lpf140)]

\* fmDemod of the encoder: the frequency contour of the signal shifted back
FmDemod(v, filtered) ==
  CopyFirst(v, FmDemodLoop(
                 ShiftI(v, filtered.I, filtered.Q, FMul(TwoPI, FNeg(SHIFT_FREQ))),
                 ShiftQ(v, filtered.I, filtered.Q, FMul(TwoPI, FNeg(SHIFT_FREQ)))))

\* shift back (by 2 PI (-SHIFT_FREQ), which the "basic" and "plain" encoders
\* write as 2 PI 0.005), FM and AM demodulation, 70 Hz lowpass: fmFiltered,
\* amFiltered
Contours(v, filtered, lpf70) ==
  [fm |-> convolve(FmDemod(v, filtered), lpf70),
   am |-> convolve(AmDemod(filtered.I, filtered.Q), lpf70)]

Synthesize(contours, rate) == SynthLoop(contours.fm, contours.am, rate, 0, Zero, <<>>).out

\* the birdsong before normalisation
Birdsong(v, input, rate) ==
  Synthesize(
    Contours(v,
             Baseband(v, input, convolve(input, createHilbertFilter(Cap(129))),
                      createSincFilter(FromInt(140), Cap(1025), rate)),
             createSincFilter(FromInt(70), Cap(1025), rate)),
    rate)

\* normalizedVoice: zeros unless max > 0, then a[i] / max
DivideByMax(a, max) == IF FGt(max, Zero) THEN DivideAll(a, max) ELSE Zeros(Len(a))

DivideByPeak(a) == DivideByMax(a, MaxAbs(a))

(***************************************************************************)
(* encodeAudio, by variant                                                 *)
(***************************************************************************)
\* the voice attenuated by HIDDEN_AMPLITUDE, not divided by its peak
HiddenVoiceAttenuated(input, maxVoice) ==
  IF FGt(maxVoice, Zero)
  THEN Float32Array(Len(input), LAMBDA i: FMul(At(input, i), HIDDEN_AMPLITUDE))
  ELSE Zeros(Len(input))

\* hiddenVoice[i] = input[i] * HIDDEN_AMPLITUDE / maxVoice when maxVoice > 0
HiddenVoice(input, maxVoice) ==
  IF FGt(maxVoice, Zero)
  THEN Float32Array(Len(input), LAMBDA i: FDiv(FMul(At(input, i), HIDDEN_AMPLITUDE), maxVoice))
  ELSE Zeros(Len(input))

encodeAudioStereo(b) ==
  createBuffer(<<ScaleToPeak(Birdsong("stereo", getChannelData(b, 0), b.sampleRate), D(9, -1)),
                 HiddenVoice(getChannelData(b, 0), MaxAbs(getChannelData(b, 0)))>>,
               Len(getChannelData(b, 0)), b.sampleRate)

encodeAudioPlain(b) ==
  createBuffer(<<ScaleToPeak(Birdsong("plain", getChannelData(b, 0), b.sampleRate), D(9, -1))>>,
               Len(getChannelData(b, 0)), b.sampleRate)

\* DSB-SC: normalizedVoice[i] * cos(ultrasonicOmega * i) * ULTRASONIC_AMPLITUDE
ModulateUltrasonic(normalizedVoice, ultrasonicOmega) ==
  Float32Array(Len(normalizedVoice), LAMBDA i:
    FMul(FMul(At(normalizedVoice, i), Cos(FMul(ultrasonicOmega, FromInt(i)))),
         ULTRASONIC_AMPLITUDE))

UltrasonicOmega(rate) == FDiv(FMul(TwoPI, FromInt(ULTRASONIC_CARRIER)), FromInt(rate))

Mix(x, y) == Float32Array(Len(x), LAMBDA i: FAdd(At(x, i), At(y, i)))

\* the limiter without its threshold: every buffer is scaled to 0.95
LimitAlways(output, maxOut) ==
  IF FGt(maxOut, Zero)
  THEN Float32Array(Len(output), LAMBDA i: FMul(At(output, i), FDiv(D(95, -2), maxOut)))
  ELSE output

\* if (maxOut > 0.95) { scale = 0.95 / maxOut; for (i...) output[i] *= scale }
Limit(output, maxOut) ==
  IF FGt(maxOut, D(95, -2))
  THEN Float32Array(Len(output), LAMBDA i: FMul(At(output, i), FDiv(D(95, -2), maxOut)))
  ELSE output

Limiter(output) == Limit(output, MaxAbs(output))

encodeAudioUltra(b) ==
  createBuffer(
    <<Limiter(Mix(ScaleToPeak(Birdsong("ultra", getChannelData(b, 0), b.sampleRate), D(7, -1)),
                  ModulateUltrasonic(
                    DivideByPeak(convolve(getChannelData(b, 0),
                                          createSincFilter(FromInt(3500), Cap(513), b.sampleRate))),
                    UltrasonicOmega(b.sampleRate))))>>,
    Len(getChannelData(b, 0)), b.sampleRate)

\* output[i] = magnitude[i] * cos(phase[i] + normalizedVoice[i] * PHASE_MOD_INDEX)
\* with magnitude and phase those of birdReal + j birdImag
PhaseModulate(birdReal, birdImag, normalizedVoice) ==
  Float32Array(Len(birdReal), LAMBDA i:
    FMul(Sqrt(FAdd(FMul(At(birdReal, i), At(birdReal, i)), FMul(At(birdImag, i), At(birdImag, i)))),
         Cos(FAdd(Atan2(At(birdImag, i), At(birdReal, i)),
                  FMul(At(normalizedVoice, i), PHASE_MOD_INDEX)))))

PhaseEmbed(birdsong, hilbert, normalizedVoice) ==
  ScaleToPeak(PhaseModulate(birdsong, convolve(birdsong, hilbert), normalizedVoice), D(9, -1))

encodeAudioPhase(b) ==
  createBuffer(
    <<PhaseEmbed(ScaleToPeak(Birdsong("phase", getChannelData(b, 0), b.sampleRate), D(85, -2)),
                 createHilbertFilter(Cap(129)),
                 DivideByPeak(getChannelData(b, 0)))>>,
    Len(getChannelData(b, 0)), b.sampleRate)

encodeAudioBasic(b) ==
  createBuffer(<<ScaleToPeak(Birdsong("basic", getChannelData(b, 0), b.sampleRate), D(9, -1))>>,
               Len(getChannelData(b, 0)), b.sampleRate)

encodeAudio(v, b) ==
  CASE v = "stereo" -> encodeAudioStereo(b)
    [] v = "plain" -> encodeAudioPlain(b)
    [] v = "ultra" -> encodeAudioUltra(b)
    [] v = "phase" -> encodeAudioPhase(b)
    [] v = "basic" -> encodeAudioBasic(b)

(***************************************************************************)
(* decodeAudio, by variant                                                 *)
(***************************************************************************)
Min(a, b) == IF a < b THEN a ELSE b

Max(a, b) == IF a > b THEN a ELSE b

RECURSIVE SumSquares(_, _, _, _)
\* for (i = from; i < n; i++) acc += a[i] * a[i]
SumSquares(a, i, n, acc) ==
  IF i >= n THEN acc ELSE SumSquares(a, i + 1, n, FAdd(acc, FMul(At(a, i), At(a, i))))

\* energy: the sum of a[i]^2 over i < min(length, window), divided by
\* min(length, window)
Energy(a, length, window) ==
  FDiv(SumSquares(a, 0, Min(length, window), Zero), FromInt(Min(length, window)))

\* a new array holding a[i] * 0.9 / maxAmp when maxAmp > 0, zeros otherwise
AmplifyBy(a, maxAmp) ==
  IF FGt(maxAmp, Zero)
  THEN Float32Array(Len(a), LAMBDA i: FDiv(FMul(At(a, i), D(9, -1)), maxAmp))
  ELSE Zeros(Len(a))

Amplify(a) == AmplifyBy(a, MaxAbs(a))

\* what a decoder returns: the buffer from createBuffer (or its exception)
\* and the return statement that produced it
Returned(path, created) ==
  [threw |-> created.threw, buffer |-> created.buffer, path |-> path]

\* the bound of the loop that measures rightEnergy, before Math.min takes
\* the length into account: the literal 44100 in the "stereo" variant, rate
\* in the others
GateWindow(v, rate) == IF v = "stereo" THEN 44100 ELSE rate

\* the secondary-channel gate over the first min(length, window) samples
SecondaryGate(b, window) ==
  /\ b.numberOfChannels >= 2
  /\ FGt(Energy(getChannelData(b, 1), b.length, window), D(1, -7))

\* the secondary-channel extraction
SecondaryExtract(b) ==
  Returned("secondary", createBuffer(<<Amplify(getChannelData(b, 1))>>, b.length, b.sampleRate))

RECURSIVE Insert(_, _)
Insert(x, sorted) ==
  IF sorted = <<>> THEN <<x>>
  ELSE IF FLt(x, Head(sorted)) THEN <<x>> \o sorted
  ELSE <<Head(sorted)>> \o Insert(x, Tail(sorted))

RECURSIVE SortNumeric(_)
\* samples.sort((a, b) => a - b)
SortNumeric(samples) ==
  IF samples = <<>> THEN <<>> ELSE Insert(Head(samples), SortNumeric(Tail(samples)))

\* a contour passed on as it is
MedianNone(fmDemod) == fmDemod

\* five-point median filter with clamped indices
MedianFilter(fmDemod) ==
  Float32Array(Len(fmDemod), LAMBDA i:
    SortNumeric([j \in 1..5 |->
                   At(fmDemod, Max(0, Min(Len(fmDemod) - 1, i - (5 \div 2) + (j - 1))))] \o <<>>)[(5 \div 2) + 1])

\* originalFm = fm * rate / (2 * PI * FSCALE * PHASE_MULT)
OriginalFm(fm, rate) ==
  FDiv(FMul(fm, FromInt(rate)), FMul(FMul(TwoPI, FromInt(FSCALE)), FromInt(PHASE_MULT)))

RECURSIVE ReconstructLoop(_, _, _, _, _, _)
\* phase += originalFm; out[i] = sin(phase) * am[i]
ReconstructLoop(fm, am, rate, i, phase, out) ==
  IF i >= Len(fm) THEN [phase |-> phase, out |-> out]
  ELSE ReconstructLoop(fm, am, rate, i + 1, Accumulate(phase, OriginalFm(At(fm, i), rate)),
                       Append(out, FMul(Sin(Accumulate(phase, OriginalFm(At(fm, i), rate))), At(am, i))))

\* FM demodulation with fmDemod[0] = fmDemod[1], median filter, AM
\* demodulation, both smoothed by lpf70, then the sine re-synthesis
Reconstruct(realPart, imagPart, lpf70, rate) ==
  ReconstructLoop(convolve(MedianFilter(CopyFirst("stereo", FmDemodLoop(realPart, imagPart))), lpf70),
                  convolve(AmDemod(realPart, imagPart), lpf70),
                  rate, 0, Zero, <<>>).out

\* the signal-processing reconstruction (strategy 4) of the "stereo", "plain"
\* and "ultra" decoders
Fallback(b) ==
  Returned("dsp",
    createBuffer(
      <<ScaleToPeak(
          convolve(Reconstruct(getChannelData(b, 0),
                               convolve(getChannelData(b, 0), createHilbertFilter(Cap(129))),
                               createSincFilter(FromInt(70), Cap(1025), b.sampleRate),
                               b.sampleRate),
                   createSincFilter(FromInt(4000), Cap(257), b.sampleRate)),
          D(9, -1))>>,
      b.length, b.sampleRate))

decodeAudioStereo(b) ==
  IF SecondaryGate(b, GateWindow("stereo", b.sampleRate)) THEN SecondaryExtract(b) ELSE Fallback(b)

decodeAudioPlain(b) == Fallback(b)

\* demodI[i] = input[i] * cos(ultrasonicOmega * i) * 2
DemodI(input, ultrasonicOmega) ==
  Float32Array(Len(input), LAMBDA i:
    FMul(FMul(At(input, i), Cos(FMul(ultrasonicOmega, FromInt(i)))), Two))

\* demodQ[i] = input[i] * sin(ultrasonicOmega * i) * 2
DemodQ(input, ultrasonicOmega) ==
  Float32Array(Len(input), LAMBDA i:
    FMul(FMul(At(input, i), Sin(FMul(ultrasonicOmega, FromInt(i)))), Two))

\* filteredI and filteredQ of the coherent demodulation
UltrasonicDemod(input, ultrasonicOmega, lpfDemod) ==
  [I |-> convolve(DemodI(input, ultrasonicOmega), lpfDemod),
   Q |-> convolve(DemodQ(input, ultrasonicOmega), lpfDemod)]

Ultrasonic(b) ==
  UltrasonicDemod(getChannelData(b, 0), UltrasonicOmega(b.sampleRate),
                  createSincFilter(FromInt(4000), Cap(513), b.sampleRate))

\* the energy of the I/Q envelope over the first second
UltrasonicEnergy(b, filtered) == Energy(AmDemod(filtered.I, filtered.Q), b.length, b.sampleRate)

\* the same three returns with the secondary channel consulted before the
\* ultrasonic gate
DecodeUltraSecondaryFirst(b, filtered) ==
  IF SecondaryGate(b, GateWindow("ultra", b.sampleRate)) THEN SecondaryExtract(b)
  ELSE IF FGt(UltrasonicEnergy(b, filtered), D(1, -4))
  THEN Returned("ultrasonic",
         createBuffer(<<Amplify(convolve(filtered.I,
                                         createSincFilter(FromInt(3500), Cap(257), b.sampleRate)))>>,
                      b.length, b.sampleRate))
  ELSE Fallback(b)

\* the ultrasonic gate and extraction, then the secondary channel, then
\* the reconstruction
DecodeUltra(b, filtered) ==
  IF FGt(UltrasonicEnergy(b, filtered), D(1, -4))
  THEN Returned("ultrasonic",
         createBuffer(<<Amplify(convolve(filtered.I,
                                         createSincFilter(FromInt(3500), Cap(257), b.sampleRate)))>>,
                      b.length, b.sampleRate))
  ELSE IF SecondaryGate(b, GateWindow("ultra", b.sampleRate)) THEN SecondaryExtract(b)
  ELSE Fallback(b)

decodeAudioUltra(b) == DecodeUltra(b, Ultrasonic(b))

\* delta = now - before, brought back by 2 PI when it leaves [-PI, PI]
\* a phase difference left as it is
WrappedNever(delta) == delta

Wrapped(delta) ==
  IF FGt(delta, PI)
  THEN (IF FLt(FSub(delta, TwoPI), FNeg(PI)) THEN FAdd(FSub(delta, TwoPI), TwoPI) ELSE FSub(delta, TwoPI))
  ELSE IF FLt(delta, FNeg(PI)) THEN FAdd(delta, TwoPI) ELSE delta

RECURSIVE UnwrapLoop(_, _, _)
\* unwrappedPhase[0] = totalPhase[0]; unwrappedPhase[i] = unwrappedPhase[i-1] + delta
UnwrapLoop(totalPhase, i, out) ==
  IF i >= Len(totalPhase) THEN out
  ELSE IF i = 0 THEN UnwrapLoop(totalPhase, 1, <<At(totalPhase, 0)>>)
  ELSE UnwrapLoop(totalPhase, i + 1,
                  Append(out, FAdd(At(out, i - 1),
                                   Wrapped(FSub(At(totalPhase, i), At(totalPhase, i - 1))))))

\* totalPhase[i] = atan2(imagPart[i], realPart[i]), unwrapped
UnwrappedPhase(realPart, imagPart) ==
  UnwrapLoop(Float32Array(Len(realPart), LAMBDA i: Atan2(At(imagPart, i), At(realPart, i))), 0, <<>>)

\* voice[i] = (unwrappedPhase[i] - birdsongPhase[i]) / PHASE_MOD_INDEX
PhaseDifference(unwrappedPhase, birdsongPhase) ==
  Float32Array(Len(unwrappedPhase), LAMBDA i:
    FDiv(FSub(At(unwrappedPhase, i), At(birdsongPhase, i)), PHASE_MOD_INDEX))

VoiceFromPhase(unwrappedPhase, lpf500) ==
  PhaseDifference(unwrappedPhase, convolve(unwrappedPhase, lpf500))

SubtractAll(a, dcOffset) == Float32Array(Len(a), LAMBDA i: FSub(At(a, i), dcOffset))

\* dcOffset = sum / length; voiceFiltered[i] -= dcOffset
RemoveDC(voiceFiltered, length) ==
  SubtractAll(voiceFiltered, FDiv(SumFrom(voiceFiltered, 0, Zero), FromInt(length)))

\* voiceFiltered of the phase demodulation
PhaseDemod(b) ==
  RemoveDC(
    convolve(VoiceFromPhase(UnwrappedPhase(getChannelData(b, 0),
                                           convolve(getChannelData(b, 0), createHilbertFilter(Cap(129)))),
                            createSincFilter(FromInt(500), Cap(1025), b.sampleRate)),
             createSincFilter(FromInt(4000), Cap(513), b.sampleRate)),
    b.length)

\* the phase gate and extraction, then the secondary channel, then silence
DecodePhase(b, voiceFiltered) ==
  IF FGt(Energy(voiceFiltered, b.length, b.sampleRate), D(1, -4))
  THEN Returned("phase", createBuffer(<<Amplify(voiceFiltered)>>, b.length, b.sampleRate))
  ELSE IF SecondaryGate(b, GateWindow("phase", b.sampleRate)) THEN SecondaryExtract(b)
  ELSE Returned("silence", createBuffer(<<Zeros(b.length)>>, b.length, b.sampleRate))

decodeAudioPhase(b) == DecodePhase(b, PhaseDemod(b))

\* the remainder of |x| / y, with the sign s of x
SignedRemainder(r, s) == IF r.m < 0 THEN Zero ELSE IF s < 0 THEN FNeg(r) ELSE r

\* JavaScript's x % y for y > 0: the remainder has the sign of x
FMod(x, y) ==
  IF ~IsFinite(x) \/ ~IsFinite(y) \/ y.m = 0 THEN NaN
  ELSE IF FLt(FAbs(x), y) THEN x
  ELSE SignedRemainder(FSub(FAbs(x), FMul(FromInt(FloorInt(FDiv(FAbs(x), y))), y)), x.m)

\* what the "basic" decoder adds to its phase: freq = (fm * 2 * PI) / rate;
\* phase += freq / 6
SawIncrement(fm, rate) ==
  FDiv(FDiv(FMul(FMul(fm, Two), PI), FromInt(rate)), FromInt(6))

\* saw = (phase % (2 * PI)) / PI - 1
Saw(phase) == FSub(FDiv(FMod(phase, TwoPI), PI), One)

RECURSIVE SawLoop(_, _, _, _, _, _)
\* phase += SawIncrement(fm[i]); out[i] = saw * am[i]
SawLoop(fm, am, rate, i, phase, out) ==
  IF i >= Len(fm) THEN [phase |-> phase, out |-> out]
  ELSE SawLoop(fm, am, rate, i + 1, Accumulate(phase, SawIncrement(At(fm, i), rate)),
               Append(out, FMul(Saw(Accumulate(phase, SawIncrement(At(fm, i), rate))), At(am, i))))

\* FM demodulation (no copy into index 0) smoothed by lpfHigh, AM
\* demodulation smoothed by lpfLow, then the sawtooth re-synthesis
ReconstructSaw(realPart, imagPart, lpfHigh, lpfLow, rate) ==
  SawLoop(convolve(FmDemodLoop(realPart, imagPart), lpfHigh),
          convolve(AmDemod(realPart, imagPart), lpfLow),
          rate, 0, Zero, <<>>).out

decodeAudioBasic(b) ==
  Returned("dsp",
    createBuffer(
      <<ScaleToPeak(
          convolve(ReconstructSaw(getChannelData(b, 0),
                                  convolve(getChannelData(b, 0), createHilbertFilter(Cap(129))),
                                  createSincFilter(FromInt(4000), Cap(1025), b.sampleRate),
                                  createSincFilter(FromInt(200), Cap(1025), b.sampleRate),
                                  b.sampleRate),
                   createSincFilter(FromInt(3000), Cap(257), b.sampleRate)),
          D(9, -1))>>,
      Len(getChannelData(b, 0)), b.sampleRate))

decodeAudio(v, b) ==
  CASE v = "stereo" -> decodeAudioStereo(b)
    [] v = "plain" -> decodeAudioPlain(b)
    [] v = "ultra" -> decodeAudioUltra(b)
    [] v = "phase" -> decodeAudioPhase(b)
    [] v = "basic" -> decodeAudioBasic(b)

(***************************************************************************)
(* Inputs                                                                  *)
(***************************************************************************)
MaxLen == 3

StereoLen == 2

LongLen == 12

Levels == {Zero, D(5, -1), D(-1, 0)}

RECURSIVE Signals(_)
\* every sample sequence of length n over Levels
Signals(n) ==
  IF n = 0 THEN {<<>>} ELSE {Append(s, x) : s \in Signals(n - 1), x \in Levels}

\* a click: one non-zero sample followed by silence
Click(a) == [k \in 1..LongLen |-> IF k = 1 THEN a ELSE Zero] \o <<>>

\* a full-scale square wave
Square == [k \in 1..LongLen |-> IF k % 2 = 1 THEN One ELSE D(-1, 0)] \o <<>>

\* a voice with two nearby levels
Graded == <<One, D(51, -2), D(5, -1)>>

MonoSignals ==
  UNION {Signals(n) : n \in 0..MaxLen} \cup {Click(D(5, -1)), Click(One), Square, Graded}

MonoInputs == {AudioBuffer(<<s>>, SAMPLE_RATE) : s \in MonoSignals}

StereoInputs ==
  UNION {{AudioBuffer(<<l, r>>, SAMPLE_RATE) : l \in Signals(n), r \in Signals(n)} : n \in 0..StereoLen}

NoBuffer == [numberOfChannels |-> 0, length |-> 0, sampleRate |-> 0, channels |-> <<>>]

NoResult == [threw |-> "none", buffer |-> NoBuffer, path |-> "none"]

(***************************************************************************)
(* Realtime mode ("basic" variant)                                         *)
(***************************************************************************)
\* samples per ScriptProcessor callback (4096 in the source)
BlockSize == 4

\* the ring buffers hold two callbacks' worth of samples (8192 in the source)
bufferSize == 2 * BlockSize

MaxCallbacks == 3

\* const bufferSize = 8192 as written in startRealtime
Capacity == 8192

\* ctx.createScriptProcessor(4096, 1, 1): the length of one processing block
ProcessingBlock == 4096

\* createSincFilter(140, 257, SAMPLE_RATE): the longest kernel of the closure
LongestKernel == 257

rtHilbert == createHilbertFilter(Cap(65))

rtLpf140 == createSincFilter(FromInt(140), Cap(257), SAMPLE_RATE)

rtLpf70 == createSincFilter(FromInt(70), Cap(257), SAMPLE_RATE)

Ring == [k \in 1..bufferSize |-> Zero] \o <<>>

NoRealtime ==
  [running |-> FALSE, callbacks |-> 0,
   inputBuffer |-> Ring, hilbertBuffer |-> Ring, shiftedI |-> Ring, shiftedQ |-> Ring,
   filteredI |-> Ring, filteredQ |-> Ring, fmI |-> Ring, fmQ |-> Ring, fmDemod |-> Ring,
   fmFiltered |-> Ring, amDemod |-> Ring, amFiltered |-> Ring,
   writePos |-> 0, shiftPhase |-> Zero, shiftBackPhase |-> Zero, synthPhase |-> Zero,
   prevFmI |-> Zero, prevFmQ |-> Zero,
   output |-> <<>>, stream |-> <<>>, hilbertOut |-> <<>>, shiftedIOut |-> <<>>, filteredIOut |-> <<>>]

\* the blocks the microphone may deliver
Blocks ==
  { [k \in 1..BlockSize |-> One] \o <<>>,
    [k \in 1..BlockSize |-> IF k % 2 = 1 THEN One ELSE D(-1, 0)] \o <<>>,
    [k \in 1..BlockSize |-> Zero] \o <<>> }

\* the % operator on integers: the remainder takes the sign of the dividend
Remainder(a, n) == IF a >= 0 THEN a % n ELSE 0 - ((0 - a) % n)

\* a history index without the wrap into the buffer
RingIndexUnwrapped(length, pos, j) == pos - (length \div 2) + j

\* const idx = (pos - Math.floor(filter.length / 2) + j + bufferSize) % bufferSize
RingIndex(length, pos, j) == Remainder(pos - (length \div 2) + j + bufferSize, bufferSize)

RECURSIVE RingSum(_, _, _, _, _)
\* sum over j of buffer[idx] * filter[j]
RingSum(buffer, filter, pos, j, sum) ==
  IF j >= Len(filter) THEN sum
  ELSE RingSum(buffer, filter, pos, j + 1,
               FAdd(sum, FMul(At(buffer, RingIndex(Len(filter), pos, j)), At(filter, j))))

\* inputBuffer[pos] = input[i]
WriteInput(c, pos, x) ==
  [c EXCEPT !.inputBuffer[pos + 1] = x, !.stream = Append(@, x)]

StoreHilbert(c, pos, hilbertSum) ==
  [c EXCEPT !.hilbertBuffer[pos + 1] = hilbertSum, !.hilbertOut = Append(@, hilbertSum)]

\* hilbertBuffer[pos] = the ring sum of inputBuffer with the Hilbert kernel
HilbertStage(c, pos) == StoreHilbert(c, pos, RingSum(c.inputBuffer, rtHilbert, pos, 0, Zero))

StoreShifted(c, pos, shiftPhase, I, Q) ==
  [c EXCEPT !.shiftPhase = shiftPhase, !.shiftedI[pos + 1] = I, !.shiftedQ[pos + 1] = Q,
            !.shiftedIOut = Append(@, I)]

\* shiftPhase += 2 * PI * SHIFT_FREQ; shiftedI[pos], shiftedQ[pos]
ShiftBy(c, pos, shiftPhase) ==
  StoreShifted(c, pos, shiftPhase,
               RotateIBy("basic", At(c.inputBuffer, pos), At(c.hilbertBuffer, pos), shiftPhase),
               RotateQBy("basic", At(c.inputBuffer, pos), At(c.hilbertBuffer, pos), shiftPhase))

ShiftStage(c, pos) == ShiftBy(c, pos, FAdd(c.shiftPhase, FMul(TwoPI, SHIFT_FREQ)))

StoreFiltered(c, pos, sumI, sumQ) ==
  [c EXCEPT !.filteredI[pos + 1] = sumI, !.filteredQ[pos + 1] = sumQ,
            !.filteredIOut = Append(@, sumI)]

\* filteredI[pos], filteredQ[pos]: ring sums with lpf140
LowpassStage(c, pos) ==
  StoreFiltered(c, pos, RingSum(c.shiftedI, rtLpf140, pos, 0, Zero),
                RingSum(c.shiftedQ, rtLpf140, pos, 0, Zero))

\* fmDemod[pos] = atan2(cross, dot) against the previous fmI, fmQ, which
\* then become this sample's
StoreFm(c, pos, shiftBackPhase, I, Q) ==
  [c EXCEPT !.shiftBackPhase = shiftBackPhase, !.fmI[pos + 1] = I, !.fmQ[pos + 1] = Q,
            !.fmDemod[pos + 1] = Atan2(FSub(FMul(I, c.prevFmQ), FMul(Q, c.prevFmI)),
                                       FAdd(FMul(I, c.prevFmI), FMul(Q, c.prevFmQ))),
            !.prevFmI = I, !.prevFmQ = Q]

\* shiftBackPhase += 2 * PI * 0.005; fmI[pos], fmQ[pos]
ShiftBackBy(c, pos, shiftBackPhase) ==
  StoreFm(c, pos, shiftBackPhase,
          RotateIBy("basic", At(c.filteredI, pos), At(c.filteredQ, pos), shiftBackPhase),
          RotateQBy("basic", At(c.filteredI, pos), At(c.filteredQ, pos), shiftBackPhase))

FmStage(c, pos) == ShiftBackBy(c, pos, FAdd(c.shiftBackPhase, FMul(TwoPI, D(5, -3))))

\* fmFiltered[pos]: ring sum of fmDemod with lpf70
FmLowpassStage(c, pos) ==
  [c EXCEPT !.fmFiltered[pos + 1] = RingSum(c.fmDemod, rtLpf70, pos, 0, Zero)]

\* amDemod[pos] = sqrt(filteredI[pos]^2 + filteredQ[pos]^2)
AmStage(c, pos) ==
  [c EXCEPT !.amDemod[pos + 1] =
              Sqrt(FAdd(FMul(At(c.filteredI, pos), At(c.filteredI, pos)),
                        FMul(At(c.filteredQ, pos), At(c.filteredQ, pos))))]

\* amFiltered[pos]: ring sum of amDemod with lpf70
AmLowpassStage(c, pos) ==
  [c EXCEPT !.amFiltered[pos + 1] = RingSum(c.amDemod, rtLpf70, pos, 0, Zero)]

\* output[i] = sin(synthPhase * 6) * amFiltered[pos] * 3
Emit(c, pos, synthPhase) ==
  [c EXCEPT !.synthPhase = synthPhase,
            !.output = Append(@, FMul(FMul(Sin(FMul(synthPhase, FromInt(6))), At(c.amFiltered, pos)),
                                      FromInt(3)))]

\* synthPhase += freq * FSCALE
SynthStage(c, pos) ==
  Emit(c, pos, Accumulate(c.synthPhase, SynthIncrement(At(c.fmFiltered, pos), SAMPLE_RATE)))

\* one iteration of the sample loop of onaudioprocess on x = input[i]
SampleAt(c, pos, x) ==
  SynthStage(
    AmLowpassStage(
      AmStage(
        FmLowpassStage(
          FmStage(
            LowpassStage(
              ShiftStage(
                HilbertStage(
                  WriteInput(c, pos, x), pos), pos), pos), pos), pos), pos), pos), pos)

ProcessSample(c, x, i) == SampleAt(c, (c.writePos + i) % bufferSize, x)

RECURSIVE SampleLoop(_, _, _)
SampleLoop(c, input, i) ==
  IF i >= Len(input) THEN c ELSE SampleLoop(ProcessSample(c, At(input, i), i), input, i + 1)

\* onaudioprocess on one input block: the sample loop, then
\* writePos = (writePos + len) % bufferSize
onaudioprocess(c, input) ==
  [SampleLoop([c EXCEPT !.output = <<>>], input, 0)
     EXCEPT !.writePos = (@ + Len(input)) % bufferSize, !.callbacks = @ + 1]

\* startRealtime: the microphone is connected to a fresh closure
StartRealtime ==
  /\ pc = "idle"
  /\ state = "idle"
  /\ variant = "basic"
  /\ rt' = [NoRealtime EXCEPT !.running = TRUE]
  /\ state' = "realtime"
  /\ pc' = "realtime"
  /\ UNCHANGED <<variant, audioBuffer, result, processedBuffer, mode, law, kernel, wav, tone, norm, ui, stage>>

\* the audio thread delivers one block to the callback
AudioProcess(input) ==
  /\ pc = "realtime"
  /\ rt.running
  /\ rt.callbacks < MaxCallbacks
  /\ rt' = onaudioprocess(rt, input)
  /\ UNCHANGED <<variant, pc, audioBuffer, result, state, processedBuffer, mode, law, kernel, wav, tone, norm, ui, stage>>

(***************************************************************************)
(* WAV files                                                               *)
(***************************************************************************)
\* Math.max(-1, Math.min(1, s))
Clamp(s) ==
  IF IsNaN(s) THEN NaN
  ELSE IF FGt(s, One) THEN One
  ELSE IF FLt(s, D(-1, 0)) THEN D(-1, 0)
  ELSE s

\* the integer part of n * 10^e for |n * 10^e| <= 32768
TruncInt(n, e) ==
  IF e >= 0 THEN n * 10^e
  ELSE IF e < -9 THEN 0
  ELSE Sgn(n) * (Abs(n) \div 10^(-e))

\* what view.setInt16 stores for s < 0 ? s * 0x8000 : s * 0x7fff, s clamped:
\* the product truncated towards zero, and 0 for NaN
Pcm16(s) ==
  IF IsNaN(s) THEN 0
  ELSE TruncInt(s.m * (IF s.m < 0 THEN 32768 ELSE 32767), s.e)

\* byte k of a little-endian unsigned integer
ByteOf(v, k) == (v \div 256^k) % 256

\* view.setUint32(offset, v, true)
Uint32(v) == <<ByteOf(v, 0), ByteOf(v, 1), ByteOf(v, 2), ByteOf(v, 3)>>

\* view.setUint16(offset, v, true)
Uint16(v) == <<ByteOf(v, 0), ByteOf(v, 1)>>

\* view.setInt16(offset, v, true): two's complement
Int16(v) == Uint16((v + 65536) % 65536)

\* the 44 header bytes: writeString and the setUint calls in source order
WavHeader(numChannels, sampleRate, dataSize) ==
  <<82, 73, 70, 70>> \o Uint32(36 + dataSize) \o <<87, 65, 86, 69>>
    \o <<102, 109, 116, 32>> \o Uint32(16) \o Uint16(1) \o Uint16(numChannels)
    \o Uint32(sampleRate) \o Uint32(sampleRate * numChannels * 2)
    \o Uint16(numChannels * 2) \o Uint16(16)
    \o <<100, 97, 116, 97>> \o Uint32(dataSize)

RECURSIVE MonoData(_, _)
\* the loop over samples of one channel, from sample i
MonoData(samples, i) ==
  IF i >= Len(samples) THEN <<>>
  ELSE Int16(Pcm16(Clamp(At(samples, i)))) \o MonoData(samples, i + 1)

\* two channels written one after the other instead of interleaved
StereoDataPlanar(left, right, i) == MonoData(left, i) \o MonoData(right, i)

RECURSIVE StereoData(_, _, _)
\* the interleaving loop, from sample i
StereoData(left, right, i) ==
  IF i >= Len(left) THEN <<>>
  ELSE Int16(Pcm16(Clamp(At(left, i)))) \o Int16(Pcm16(Clamp(At(right, i))))
         \o StereoData(left, right, i + 1)

\* bytes of the ArrayBuffer the loop does not write stay 0
ZeroFill(bytes, size) == bytes \o [k \in 1..(size - Len(bytes)) |-> 0]

\* audioBufferToWav of the variants that write every channel count into the
\* header and interleave two channels
audioBufferToWavChannels(buffer) ==
  WavHeader(buffer.numberOfChannels, buffer.sampleRate, buffer.length * buffer.numberOfChannels * 2)
    \o (IF buffer.numberOfChannels = 2
        THEN StereoData(getChannelData(buffer, 0), getChannelData(buffer, 1), 0)
        ELSE ZeroFill(MonoData(getChannelData(buffer, 0), 0),
                      buffer.length * buffer.numberOfChannels * 2))

\* audioBufferToWav of the variants that write channel 0 only
audioBufferToWavMono(buffer) ==
  WavHeader(1, buffer.sampleRate, buffer.length * 2) \o MonoData(getChannelData(buffer, 0), 0)

audioBufferToWav(v, buffer) ==
  IF v \in {"plain", "basic"} THEN audioBufferToWavMono(buffer) ELSE audioBufferToWavChannels(buffer)

\* the little-endian unsigned integer of `width` bytes at a byte offset
ReadUint(bytes, offset, width) ==
  IF width = 2 THEN bytes[offset + 1] + 256 * bytes[offset + 2]
  ELSE bytes[offset + 1] + 256 * bytes[offset + 2] + 65536 * bytes[offset + 3]
         + 16777216 * bytes[offset + 4]

\* the little-endian signed 16-bit integer at a byte offset
ReadInt16(bytes, offset) ==
  IF ReadUint(bytes, offset, 2) >= 32768 THEN ReadUint(bytes, offset, 2) - 65536
  ELSE ReadUint(bytes, offset, 2)

\* a 16-bit PCM sample as decodeAudioData returns it: v / 32768, with
\* 1 / 32768 = 3.0518e-5
PcmToFloat(v) == Norm(v * 30518, -9)

\* channel ch of a 16-bit PCM file of numChannels channels
WavChannel(bytes, numChannels, ch) ==
  Float32Array(ReadUint(bytes, 40, 4) \div (2 * numChannels),
               LAMBDA k: PcmToFloat(ReadInt16(bytes, 44 + 2 * (k * numChannels + ch))))

\* audioContext.decodeAudioData on a 16-bit PCM WAV file at the context's rate
decodeAudioData(bytes) ==
  [numberOfChannels |-> ReadUint(bytes, 22, 2),
   length |-> ReadUint(bytes, 40, 4) \div (2 * ReadUint(bytes, 22, 2)),
   sampleRate |-> ReadUint(bytes, 24, 4),
   channels |-> [ch \in 1..ReadUint(bytes, 22, 2) |-> WavChannel(bytes, ReadUint(bytes, 22, 2), ch - 1)] \o <<>>]

(***************************************************************************)
(* Taps, timers and capture sessions                                       *)
(***************************************************************************)
\* setTimeout(..., 300) in handleTap
TimerDelay == 300

\* Date.now() - lastTapRef.current >= 280 in the timer callback
TapThreshold == 280

\* timeSinceLastTap < 300 in the handleTap with realtime mode
DoubleTapWindow == 300

\* the clock advances in steps that tell the threshold from the delay
TickMs == TimerDelay - TapThreshold

MaxTime == 340

MaxTaps == 3

\* the refs of the component before the first tap: no timer, no session,
\* lastTapRef long before the first Date.now(). sourceRef names the source
\* it holds: 0 for null, i for the source onstop of session i started, -1 for
\* the source handleFileSelect started. blobUrl is 0 for null, i for the url
\* the upload of session i returned; encodedBy is the session whose onstop
\* stored processedBuffer last
NoTaps ==
  [now |-> 0, lastTap |-> 0 - 2 * TimerDelay, taps |-> 0, timers |-> <<>>, sessions |-> <<>>,
   mediaRecorderRef |-> 0, realtimeRef |-> 0, sourceRef |-> 0, blobUrl |-> 0, encodedBy |-> 0]

\* the variants whose onstop uploads the file before playback
HasUpload(v) == v \in {"stereo", "ultra", "phase"}

\* the variant whose handleTap knows the realtime mode
HasRealtime(v) == v = "basic"

\* the disabled attribute of the main button
Disabled(v, st) == st = "processing" \/ (HasUpload(v) /\ st = "uploading")

\* lastTapRef.current = now
Tapped(u) == [u EXCEPT !.lastTap = u.now, !.taps = @ + 1]

\* startRecording() called: it runs up to await getUserMedia
startRecording(u) ==
  [u EXCEPT !.sessions = Append(@, [kind |-> "recorder", pc |-> "getUserMedia"])]

\* startRealtime() called: it runs up to await getUserMedia
startRealtime(u) ==
  [u EXCEPT !.sessions = Append(@, [kind |-> "realtime", pc |-> "getUserMedia"])]

\* mediaRecorderRef.current?.stop(): the recorder the ref holds stops and its
\* stop event is queued; nothing happens without a recording recorder
stopRecording(u) ==
  IF u.mediaRecorderRef # 0 /\ u.sessions[u.mediaRecorderRef].pc = "recording"
  THEN [u EXCEPT !.sessions[u.mediaRecorderRef].pc = "stopping"]
  ELSE u

\* stopRealtime: the session realtimeRef holds is disconnected and its stream
\* stopped, and the ref is cleared
stopRealtime(u) ==
  IF u.realtimeRef # 0
  THEN [u EXCEPT !.sessions[u.realtimeRef].pc = "stopped", !.realtimeRef = 0]
  ELSE u

\* sourceRef.current?.stop() on a source onstop started: the source the ref
\* holds stops, if it still plays; no other source is touched
stopPlayback(u) ==
  IF u.sourceRef > 0 /\ u.sessions[u.sourceRef].pc = "playing"
  THEN [u EXCEPT !.sessions[u.sourceRef].pc = "done"]
  ELSE u

\* sourceRef.current?.stop() on the source handleFileSelect started: where
\* handleFileSelect stands afterwards
StoppedFile(u, at) == IF u.sourceRef = -1 /\ at = "handled" THEN "ended" ELSE at

(***************************************************************************)
(* The component                                                           *)
(***************************************************************************)
\* no stage has been run alone
NoStage == [name |-> "none", input |-> <<>>, kernel |-> <<>>, output |-> <<>>]

Init ==
  /\ variant \in Variants
  /\ pc = "idle"
  /\ audioBuffer = NoBuffer
  /\ result = NoResult
  /\ state = "idle"
  /\ processedBuffer = NoBuffer
  /\ mode = "encode"
  /\ law = [x |-> Zero, advance |-> Zero, increment |-> Zero]
  /\ kernel = [threw |-> "none", filter |-> <<>>, kind |-> "none", length |-> 0, cutoffHz |-> Zero]
  /\ rt = NoRealtime
  /\ wav = <<>>
  /\ tone = [w |-> Zero, I |-> <<>>, Q |-> <<>>, freq |-> <<>>]
  /\ norm = [kind |-> "none", target |-> Zero, input |-> <<>>, output |-> <<>>]
  /\ ui = NoTaps
  /\ stage = NoStage

\* encodeAudio(b) on a buffer of the running variant
EncodeAudio(b) ==
  /\ pc = "idle"
  /\ audioBuffer' = b
  /\ result' = Returned("encode", encodeAudio(variant, b))
  /\ pc' = "encoded"
  /\ UNCHANGED <<variant, state, processedBuffer, mode, law, kernel, rt, wav, tone, norm, ui, stage>>

\* decodeAudio(b) on a buffer of any origin
DecodeAudio(b) ==
  /\ pc = "idle"
  /\ audioBuffer' = b
  /\ result' = decodeAudio(variant, b)
  /\ pc' = "decoded"
  /\ UNCHANGED <<variant, state, processedBuffer, mode, law, kernel, rt, wav, tone, norm, ui, stage>>

\* decodeAudio on the buffer encodeAudio has just returned
DecodeEncoded ==
  /\ pc = "encoded"
  /\ result.threw = "none"
  /\ result' = decodeAudio(variant, result.buffer)
  /\ pc' = "roundtrip"
  /\ UNCHANGED <<variant, audioBuffer, state, processedBuffer, mode, law, kernel, rt, wav, tone, norm, ui, stage>>

\* handleFileSelect up to its first await: the file has been picked (the
\* file input is never disabled, whatever the state)
HandleFileSelect(b) ==
  /\ pc = "idle"
  /\ state' = "processing"
  /\ audioBuffer' = b
  /\ pc' = "file"
  /\ UNCHANGED <<variant, result, processedBuffer, mode, law, kernel, rt, wav, tone, norm, ui, stage>>

\* handleFileSelect after decodeAudio: playback of what it returned, or the
\* catch block when it threw
AfterDecode(voiceBuffer) ==
  /\ result' = voiceBuffer
  /\ processedBuffer' = IF voiceBuffer.threw = "none" THEN voiceBuffer.buffer ELSE processedBuffer
  /\ mode' = IF voiceBuffer.threw = "none" THEN "decode" ELSE mode
  /\ state' = IF voiceBuffer.threw = "none" THEN "playing" ELSE "idle"
  /\ ui' = IF voiceBuffer.threw = "none" THEN [ui EXCEPT !.sourceRef = -1] ELSE ui

\* the rest of handleFileSelect
FileDecoded ==
  /\ pc = "file"
  /\ AfterDecode(decodeAudio(variant, audioBuffer))
  /\ pc' = "handled"
  /\ UNCHANGED <<variant, audioBuffer, law, kernel, rt, wav, tone, norm, stage>>

\* src.onended, or stopPlayback
PlaybackEnded ==
  /\ state = "playing"
  /\ state' = "idle"
  /\ UNCHANGED <<variant, pc, audioBuffer, result, processedBuffer, mode, law, kernel, rt, wav, tone, norm, ui, stage>>

\* handleDownload on the buffer encodeAudio returned (processedBuffer after
\* onstop): the file written to disk
HandleDownload ==
  /\ pc = "encoded"
  /\ result.threw = "none"
  /\ wav' = audioBufferToWav(variant, result.buffer)
  /\ pc' = "downloaded"
  /\ UNCHANGED <<variant, audioBuffer, result, state, processedBuffer, mode, law, kernel, rt, tone, norm, ui, stage>>

\* the downloaded file selected again: decodeAudioData, then decodeAudio
DecodeDownloaded ==
  /\ pc = "downloaded"
  /\ result' = decodeAudio(variant, decodeAudioData(wav))
  /\ pc' = "reloaded"
  /\ UNCHANGED <<variant, audioBuffer, state, processedBuffer, mode, law, kernel, rt, wav, tone, norm, ui, stage>>

(***************************************************************************)
(* One contour value through the synthesizer and back                      *)
(***************************************************************************)
ContourValues == {D(15, -2), D(1, -1), D(-1, -1), D(5, -2), D(1, -2), D(-2, -3)}

\* the phase advance per sample of the carrier sin(phase * PHASE_MULT)
CarrierAdvance(x, rate) == FMul(SynthIncrement(x, rate), FromInt(PHASE_MULT))

\* the phase increment a decoder derives from a demodulated advance fm
DecodeIncrement(v, fm, rate) ==
  IF v = "basic" THEN SawIncrement(fm, rate) ELSE OriginalFm(fm, rate)

\* the synthesizer advances the carrier by x's advance; the FM demodulator
\* reads the advance back (it lies inside (-PI, PI)); the decoder turns it
\* into its own phase increment
SynthesizeSample(x) ==
  /\ pc = "idle"
  /\ variant # "phase"
  /\ LET advance == CarrierAdvance(x, SAMPLE_RATE)
     IN law' = [x |-> x, advance |-> advance,
                increment |-> DecodeIncrement(variant, advance, SAMPLE_RATE)]
  /\ pc' = "law"
  /\ UNCHANGED <<variant, audioBuffer, result, state, processedBuffer, mode, kernel, rt, wav, tone, norm, ui, stage>>

(***************************************************************************)
(* The FM demodulator on a complex tone                                    *)
(***************************************************************************)
ToneLen == 4

\* angular frequencies in radians per sample, inside (0, PI)
ToneFrequencies == {D(1, -1), D(5, -1), One, Two, D(3, 0)}

\* I[i] = cos(w * i)
ToneI(w, length) == Float32Array(length, LAMBDA i: Cos(FMul(w, FromInt(i))))

\* Q[i] = sin(w * i)
ToneQ(w, length) == Float32Array(length, LAMBDA i: Sin(FMul(w, FromInt(i))))

\* the FM demodulation loop and fmDemod[0] = fmDemod[1] on the tone
\* exp(j w i)
DemodulateTone(w) ==
  /\ pc = "idle"
  /\ tone' = [w |-> w, I |-> ToneI(w, ToneLen), Q |-> ToneQ(w, ToneLen),
              freq |-> CopyFirst(variant, FmDemodLoop(ToneI(w, ToneLen), ToneQ(w, ToneLen)))]
  /\ pc' = "tone"
  /\ UNCHANGED <<variant, audioBuffer, result, state, processedBuffer, mode, law, kernel, rt, wav, norm, ui, stage>>

(***************************************************************************)
(* The normalisers on their own                                            *)
(***************************************************************************)
\* the peak the encoder of a variant normalises its birdsong to
NormTarget(v) ==
  IF v = "ultra" THEN D(7, -1) ELSE IF v = "phase" THEN D(85, -2) ELSE D(9, -1)

\* a signal with every sample multiplied by gain
Gained(samples, gain) == Float32Array(Len(samples), LAMBDA i: FMul(At(samples, i), gain))

\* the peak normalisation loop of encodeAudio applied to a buffer
NormalizePeak(samples, gain) ==
  /\ pc = "idle"
  /\ norm' = [kind |-> "peak", target |-> NormTarget(variant), input |-> Gained(samples, gain),
              output |-> ScaleToPeak(Gained(samples, gain), NormTarget(variant))]
  /\ pc' = "normalized"
  /\ UNCHANGED <<variant, audioBuffer, result, state, processedBuffer, mode, law, kernel, rt, wav, tone, ui, stage>>

\* the final limiter of the ultrasonic encoder applied to a buffer
LimitPeak(samples, gain) ==
  /\ pc = "idle"
  /\ variant = "ultra"
  /\ norm' = [kind |-> "limiter", target |-> D(95, -2), input |-> Gained(samples, gain),
              output |-> Limiter(Gained(samples, gain))]
  /\ pc' = "normalized"
  /\ UNCHANGED <<variant, audioBuffer, result, state, processedBuffer, mode, law, kernel, rt, wav, tone, ui, stage>>

(***************************************************************************)
(* Filter construction                                                     *)
(***************************************************************************)
FilterLengths == -1..7

Cutoffs == {FromInt(-100), Zero, FromInt(70), FromInt(4000), FromInt(22050), FromInt(30000)}

\* createSincFilter / createHilbertFilter as called: new Float32Array(length)
\* throws RangeError for a negative length, and nothing else is checked
CreateFilter(kind, length, cutoffHz) ==
  /\ pc = "idle"
  /\ kernel' = [threw |-> IF length < 0 THEN "RangeError" ELSE "none",
                filter |-> IF length < 0 THEN <<>>
                           ELSE IF kind = "sinc" THEN createSincFilter(cutoffHz, length, SAMPLE_RATE)
                           ELSE createHilbertFilter(length),
                kind |-> kind, length |-> length, cutoffHz |-> cutoffHz]
  /\ pc' = "filter"
  /\ UNCHANGED <<variant, audioBuffer, result, state, processedBuffer, mode, law, rt, wav, tone, norm, ui, stage>>

(***************************************************************************)
(* The arrays of one call of encodeAudio or decodeAudio                    *)
(***************************************************************************)
\* the array behind channel c of the AudioBuffer the caller hands over
ChannelObject(c) == IF c = 0 THEN "channel0" ELSE "channel1"

\* the memory on entry: no name bound, the caller's channel arrays on the
\* heap, nothing allocated and nothing written by the call
Entered(b) ==
  [env |-> [n \in {} |-> "none"],
   heap |-> [o \in {ChannelObject(c) : c \in 0..(b.numberOfChannels - 1)} |->
               getChannelData(b, IF o = "channel0" THEN 0 ELSE 1)],
   allocated |-> {},
   written |-> {}]

\* const name = audioBuffer.getChannelData(c): the array itself, not a copy
View(m, name, c) == [m EXCEPT !.env = (name :> ChannelObject(c)) @@ @]

\* const name = new Float32Array(...), filled by the loop that follows
Allocate(m, name, data) ==
  [env |-> (name :> name) @@ m.env,
   heap |-> (name :> data) @@ m.heap,
   allocated |-> m.allocated \cup {name},
   written |-> m.written \cup {name}]

\* name[i] = ... on an array that exists: a write through the binding
Store(m, name, data) ==
  [m EXCEPT !.heap[m.env[name]] = data, !.written = @ \cup {m.env[name]}]

\* name[i] read
Load(m, name) == m.heap[m.env[name]]

\* a convolve that writes its result over its signal and returns the signal
ConvolvedInPlace(m, name, signal, filter) ==
  Store([m EXCEPT !.env = (name :> m.env[signal]) @@ @], name,
        convolve(Load(m, signal), filter))

\* const name = convolve(signal, filter): result = new Float32Array(signal.length)
Convolved(m, name, signal, filter) ==
  Allocate(m, name, convolve(Load(m, signal), filter))

\* outputBuffer = ctx.createBuffer(1, length, rate), which throws for a
\* length of 0; outputBuffer.getChannelData(0).set(from)
OutputBuffer(m, from, length) ==
  IF length = 0 THEN m ELSE Allocate(m, "outputBuffer", Load(m, from))

\* the statements of encodeAudio ("ultra") that bind, allocate or write an
\* array, in program order
EncodeStatements ==
  <<"input", "realPart", "imagPart", "shiftedI", "shiftedQ", "filteredI", "filteredQ",
    "fmI", "fmQ", "fmDemod", "fmDemod[0]", "fmFiltered", "amDemod", "amFiltered",
    "birdsong", "birdsong[i] *=", "bandlimitedVoice", "normalizedVoice",
    "modulatedUltrasonic", "output", "output[i] *=", "outputBuffer">>

\* one statement of encodeAudio on the memory m
EncodeStatement(m, st, length, rate) ==
  CASE st = "input" -> View(m, "input", 0)
    [] st = "realPart" -> Allocate(m, "realPart", Load(m, "input"))
    [] st = "imagPart" -> Convolved(m, "imagPart", "input", createHilbertFilter(Cap(129)))
    [] st = "shiftedI" ->
         Allocate(m, "shiftedI", ShiftI("ultra", Load(m, "realPart"), Load(m, "imagPart"),
                                        FMul(TwoPI, SHIFT_FREQ)))
    [] st = "shiftedQ" ->
         Allocate(m, "shiftedQ", ShiftQ("ultra", Load(m, "realPart"), Load(m, "imagPart"),
                                        FMul(TwoPI, SHIFT_FREQ)))
    [] st = "filteredI" ->
         Convolved(m, "filteredI", "shiftedI", createSincFilter(FromInt(140), Cap(1025), rate))
    [] st = "filteredQ" ->
         Convolved(m, "filteredQ", "shiftedQ", createSincFilter(FromInt(140), Cap(1025), rate))
    [] st = "fmI" ->
         Allocate(m, "fmI", ShiftI("ultra", Load(m, "filteredI"), Load(m, "filteredQ"),
                                   FMul(TwoPI, FNeg(SHIFT_FREQ))))
    [] st = "fmQ" ->
         Allocate(m, "fmQ", ShiftQ("ultra", Load(m, "filteredI"), Load(m, "filteredQ"),
                                   FMul(TwoPI, FNeg(SHIFT_FREQ))))
    [] st = "fmDemod" -> Allocate(m, "fmDemod", FmDemodLoop(Load(m, "fmI"), Load(m, "fmQ")))
    [] st = "fmDemod[0]" -> Store(m, "fmDemod", CopyFirst("ultra", Load(m, "fmDemod")))
    [] st = "fmFiltered" ->
         Convolved(m, "fmFiltered", "fmDemod", createSincFilter(FromInt(70), Cap(1025), rate))
    [] st = "amDemod" ->
         Allocate(m, "amDemod", AmDemod(Load(m, "filteredI"), Load(m, "filteredQ")))
    [] st = "amFiltered" ->
         Convolved(m, "amFiltered", "amDemod", createSincFilter(FromInt(70), Cap(1025), rate))
    [] st = "birdsong" ->
         Allocate(m, "birdsong",
                  SynthLoop(Load(m, "fmFiltered"), Load(m, "amFiltered"), rate, 0, Zero, <<>>).out)
    [] st = "birdsong[i] *=" -> Store(m, "birdsong", ScaleToPeak(Load(m, "birdsong"), D(7, -1)))
    [] st = "bandlimitedVoice" ->
         Convolved(m, "bandlimitedVoice", "input", createSincFilter(FromInt(3500), Cap(513), rate))
    [] st = "normalizedVoice" ->
         Allocate(m, "normalizedVoice", DivideByPeak(Load(m, "bandlimitedVoice")))
    [] st = "modulatedUltrasonic" ->
         Allocate(m, "modulatedUltrasonic",
                  ModulateUltrasonic(Load(m, "normalizedVoice"), UltrasonicOmega(rate)))
    [] st = "output" ->
         Allocate(m, "output", Mix(Load(m, "birdsong"), Load(m, "modulatedUltrasonic")))
    [] st = "output[i] *=" -> Store(m, "output", Limiter(Load(m, "output")))
    [] st = "outputBuffer" -> OutputBuffer(m, "output", length)

\* the statements of decodeAudio ("phase") up to the energy test
DecodeStatements ==
  <<"input", "realPart", "imagPart", "totalPhase", "unwrappedPhase", "birdsongPhase",
    "voice", "voiceFiltered", "voiceFiltered[i] -=", "return">>

\* the empty buffer decodeAudio returns when no gate passes
Silence(m, length) == IF length = 0 THEN m ELSE Allocate(m, "outputBuffer", Zeros(length))

\* the return of decodeAudio: the normalised voice, the right channel, or
\* silence
DecodeReturn(m, b) ==
  IF FGt(Energy(Load(m, "voiceFiltered"), b.length, b.sampleRate), D(1, -4))
  THEN OutputBuffer(Allocate(m, "normalizedVoice", Amplify(Load(m, "voiceFiltered"))),
                    "normalizedVoice", b.length)
  ELSE IF SecondaryGate(b, GateWindow("phase", b.sampleRate))
  THEN OutputBuffer(Allocate(View(m, "rightChannel", 1), "amplifiedVoice",
                             Amplify(Load(View(m, "rightChannel", 1), "rightChannel"))),
                    "amplifiedVoice", b.length)
  ELSE Silence(m, b.length)

\* one statement of decodeAudio on the memory m
DecodeStatement(m, st, b) ==
  CASE st = "input" -> View(m, "input", 0)
    [] st = "realPart" -> Allocate(m, "realPart", Load(m, "input"))
    [] st = "imagPart" -> Convolved(m, "imagPart", "input", createHilbertFilter(Cap(129)))
    [] st = "totalPhase" ->
         Allocate(m, "totalPhase",
                  Float32Array(b.length, LAMBDA i: Atan2(At(Load(m, "imagPart"), i),
                                                         At(Load(m, "realPart"), i))))
    [] st = "unwrappedPhase" ->
         Allocate(m, "unwrappedPhase", UnwrapLoop(Load(m, "totalPhase"), 0, <<>>))
    [] st = "birdsongPhase" ->
         Convolved(m, "birdsongPhase", "unwrappedPhase",
                   createSincFilter(FromInt(500), Cap(1025), b.sampleRate))
    [] st = "voice" ->
         Allocate(m, "voice", PhaseDifference(Load(m, "unwrappedPhase"), Load(m, "birdsongPhase")))
    [] st = "voiceFiltered" ->
         Convolved(m, "voiceFiltered", "voice",
                   createSincFilter(FromInt(4000), Cap(513), b.sampleRate))
    [] st = "voiceFiltered[i] -=" ->
         Store(m, "voiceFiltered", RemoveDC(Load(m, "voiceFiltered"), b.length))
    [] st = "return" -> DecodeReturn(m, b)

RECURSIVE RunEncode(_, _, _, _)
\* the statements of encodeAudio from the memory m on
RunEncode(m, statements, length, rate) ==
  IF statements = <<>> THEN m
  ELSE RunEncode(EncodeStatement(m, Head(statements), length, rate), Tail(statements), length, rate)

RECURSIVE RunDecode(_, _, _)
\* the statements of decodeAudio from the memory m on
RunDecode(m, statements, b) ==
  IF statements = <<>> THEN m
  ELSE RunDecode(DecodeStatement(m, Head(statements), b), Tail(statements), b)

(***************************************************************************)
(* Stages of the pipelines run alone                                       *)
(***************************************************************************)
\* values of totalPhase[i] = Math.atan2(imagPart[i], realPart[i]) as the
\* Float32Array holds them. Math.PI is not a value a Float32Array can hold:
\* atan2(0, -1) is stored as 3.1415927410125732, the next value above it, and
\* atan2(-0, -1) as its negative; no two stored values differ by Math.PI
PhaseValues == {D(-3143, -3), D(-1, 0), Zero, Two, D(3, 0), D(3143, -3)}

\* totalPhase arrays of up to MaxLen samples
PhaseInputs == UNION {[1..n -> PhaseValues] : n \in 1..MaxLen}

\* the unwrap loop of decodeAudio on totalPhase
UnwrapPhase(totalPhase) ==
  /\ pc = "idle"
  /\ variant = "phase"
  /\ stage' = [name |-> "unwrap", input |-> totalPhase \o <<>>, kernel |-> <<>>,
               output |-> UnwrapLoop(totalPhase \o <<>>, 0, <<>>)]
  /\ pc' = "stage"
  /\ UNCHANGED <<variant, audioBuffer, result, state, processedBuffer, mode, law, kernel, rt, wav, tone, norm, ui>>

\* values the accumulator of a synthesis loop holds after earlier samples:
\* sums of increments of either sign, also beyond one turn
PhaseSums == {D(-7, 0), D(-4, 0), D(-1, 0), Zero, One, D(4, 0), D(6283, -3), D(7, 0)}

\* contours of one or two samples
ShortContours == UNION {[1..n -> ContourValues] : n \in 1..2}

\* the amplitude contour that leaves the waveshape as it is
UnitEnvelope(fm) == [k \in 1..Len(fm) |-> One] \o <<>>

\* a pass of a synthesis loop: the accumulator it started from and the
\* increments it added, the accumulator it ended with and its samples
LoopRun(name, phase, increments, loop) ==
  /\ pc = "idle"
  /\ stage' = [name |-> name, input |-> <<phase>> \o increments, kernel |-> <<>>,
               output |-> <<loop.phase>> \o loop.out]
  /\ pc' = "stage"
  /\ UNCHANGED <<variant, audioBuffer, result, state, processedBuffer, mode, law, kernel, rt, wav, tone, norm, ui>>

\* the synthesis loop of encodeAudio, entered with phase in the accumulator
EncodeLoop(phase, fm) ==
  /\ pc = "idle"
  /\ LoopRun("synthesis", phase,
             [k \in 1..Len(fm) |-> SynthIncrement(fm[k], SAMPLE_RATE)] \o <<>>,
             SynthLoop(fm \o <<>>, UnitEnvelope(fm), SAMPLE_RATE, 0, phase, <<>>))

\* the re-synthesis loop of decodeAudio, entered with phase in the
\* accumulator: the sawtooth of the "basic" variant, the sine of the others
DecodeLoop(phase, fm) ==
  IF variant = "basic"
  THEN LoopRun("saw", phase,
               [k \in 1..Len(fm) |-> SawIncrement(fm[k], SAMPLE_RATE)] \o <<>>,
               SawLoop(fm \o <<>>, UnitEnvelope(fm), SAMPLE_RATE, 0, phase, <<>>))
  ELSE LoopRun("sine", phase,
               [k \in 1..Len(fm) |-> OriginalFm(fm[k], SAMPLE_RATE)] \o <<>>,
               ReconstructLoop(fm \o <<>>, UnitEnvelope(fm), SAMPLE_RATE, 0, phase, <<>>))

\* the synthesis step of onaudioprocess on a closure that holds phase in
\* synthPhase and x in fmFiltered[pos]
RealtimeStep(phase, x) ==
  /\ variant = "basic"
  /\ LoopRun("realtime", phase, <<SynthIncrement(x, SAMPLE_RATE)>>,
             [phase |-> SynthStage([NoRealtime EXCEPT !.synthPhase = phase, !.fmFiltered[1] = x], 0).synthPhase,
              out |-> SynthStage([NoRealtime EXCEPT !.synthPhase = phase, !.fmFiltered[1] = x], 0).output])

\* values of fmDemod[i]: a level, a spike and a dip
SpikeValues == {D(1, -1), D(3, 0), D(-2, -1)}

\* fmDemod as the median filter finds it: fmDemod[0] = fmDemod[1] has run, so
\* a contour of one sample holds NaN and a longer one starts with two equal
\* samples
MedianInputs ==
  {<<NaN>>} \cup {a \in UNION {[1..n -> SpikeValues] : n \in 2..(MaxLen + 2)} : a[1] = a[2]}

\* the median filter of decodeAudio on fmDemod
MedianStage(fmDemod) ==
  /\ pc = "idle"
  /\ variant \in {"stereo", "plain", "ultra"}
  /\ stage' = [name |-> "median", input |-> fmDemod \o <<>>, kernel |-> <<>>,
               output |-> MedianFilter(fmDemod \o <<>>)]
  /\ pc' = "stage"
  /\ UNCHANGED <<variant, audioBuffer, result, state, processedBuffer, mode, law, kernel, rt, wav, tone, norm, ui>>

\* sample rates of an AudioBuffer handed to decodeAudio
GateRates == {22050, SAMPLE_RATE, 48000}

\* run lengths of a right channel, in samples
RunLengths == {3900, 22050, SAMPLE_RATE}

\* a right channel written as runs of equal samples: silence, the hidden
\* voice at -60 dB and a full-scale signal
RunValues == {Zero, D(1, -3), D(5, -1)}

Runs == [count : RunLengths, value : RunValues]

RightChannels == UNION {[1..n -> Runs] : n \in 1..2}

RECURSIVE RunsLength(_)
\* the number of samples of a channel written as runs
RunsLength(runs) == IF runs = <<>> THEN 0 ELSE Head(runs).count + RunsLength(Tail(runs))

RECURSIVE RunsSquares(_, _)
\* for (i = 0; i < n; i++) rightEnergy += rightChannel[i] * rightChannel[i],
\* summed run by run
RunsSquares(runs, n) ==
  IF runs = <<>> \/ n <= 0 THEN Zero
  ELSE FAdd(FMul(FromInt(Min(Head(runs).count, n)), FMul(Head(runs).value, Head(runs).value)),
            RunsSquares(Tail(runs), n - Head(runs).count))

\* rightEnergy over the first n samples
RunsEnergy(runs, n) == FDiv(RunsSquares(runs, n), FromInt(n))

\* the secondary-channel gate of decodeAudio on a stereo buffer of a given
\* rate: the number of samples it measured, the energy it found and whether
\* it let the right channel through
GateStage(rate, rightChannel) ==
  /\ pc = "idle"
  /\ variant \in {"stereo", "ultra", "phase"}
  /\ stage' = [name |-> "gate", input |-> <<rate, RunsLength(rightChannel)>>,
               kernel |-> rightChannel \o <<>>,
               output |-> <<Min(RunsLength(rightChannel), GateWindow(variant, rate)),
                            FGt(RunsEnergy(rightChannel \o <<>>,
                                           Min(RunsLength(rightChannel), GateWindow(variant, rate))),
                                D(1, -7))>>]
  /\ pc' = "stage"
  /\ UNCHANGED <<variant, audioBuffer, result, state, processedBuffer, mode, law, kernel, rt, wav, tone, norm, ui>>

\* encodeAudio or decodeAudio, followed array by array: the channels handed
\* over and the memory the call leaves behind
Call(name, b, m) ==
  /\ pc = "idle"
  /\ stage' = [name |-> name, input |-> b.channels, kernel |-> <<>>, output |-> <<m>>]
  /\ pc' = "stage"
  /\ UNCHANGED <<variant, audioBuffer, result, state, processedBuffer, mode, law, kernel, rt, wav, tone, norm, ui>>

\* encodeAudio of the "ultra" variant
EncodeCall(b) ==
  /\ variant = "ultra"
  /\ Call("encodeAudio", b, RunEncode(Entered(b), EncodeStatements, b.length, b.sampleRate))

\* decodeAudio of the "phase" variant
DecodeCall(b) ==
  /\ variant = "phase"
  /\ Call("decodeAudio", b, RunDecode(Entered(b), DecodeStatements, b))

\* signals of up to MaxLen samples
StageSignals == UNION {[1..n -> Levels] : n \in 0..MaxLen}

\* kernels of odd length: a single 1 at the centre, at the first tap or at
\* the last tap, and kernels with several taps
StageKernels ==
  { <<One>>, <<Zero, One, Zero>>, <<Zero, Zero, One, Zero, Zero>>,
    <<One, Zero, Zero>>, <<Zero, Zero, One>>, <<D(5, -1), One, D(-1, 0)>>,
    <<D(5, -1), Zero, Two, Zero, One>> }

\* convolve(signal, filter) called on its own
ConvolveStage(signal, filter) ==
  /\ pc = "idle"
  /\ stage' = [name |-> "convolve", input |-> signal \o <<>>, kernel |-> filter,
               output |-> convolve(signal \o <<>>, filter)]
  /\ pc' = "stage"
  /\ UNCHANGED <<variant, audioBuffer, result, state, processedBuffer, mode, law, kernel, rt, wav, tone, norm, ui>>

Next ==
  \/ \E b \in MonoInputs : EncodeAudio(b)
  \/ \E b \in MonoInputs \cup StereoInputs : DecodeAudio(b)
  \/ DecodeEncoded
  \/ HandleDownload
  \/ DecodeDownloaded
  \/ \E b \in MonoInputs \cup StereoInputs : HandleFileSelect(b)
  \/ FileDecoded
  \/ PlaybackEnded
  \/ \E x \in ContourValues : SynthesizeSample(x)
  \/ \E w \in ToneFrequencies : DemodulateTone(w)
  \/ \E samples \in MonoSignals, gain \in {One, NormTarget(variant)} : NormalizePeak(samples, gain)
  \/ \E samples \in MonoSignals, gain \in {One, D(95, -2), D(7, -1)} : LimitPeak(samples, gain)
  \/ \E length \in FilterLengths : CreateFilter("hilbert", length, Zero)
  \/ \E length \in FilterLengths, cutoffHz \in Cutoffs : CreateFilter("sinc", length, cutoffHz)
  \/ StartRealtime
  \/ \E input \in Blocks : AudioProcess(input)
  \/ \E totalPhase \in PhaseInputs : UnwrapPhase(totalPhase)
  \/ \E phase \in PhaseSums, fm \in ShortContours : EncodeLoop(phase, fm)
  \/ \E phase \in PhaseSums, fm \in ShortContours : DecodeLoop(phase, fm)
  \/ \E phase \in PhaseSums, x \in ContourValues : RealtimeStep(phase, x)
  \/ \E fmDemod \in MedianInputs : MedianStage(fmDemod)
  \/ \E rate \in GateRates, rightChannel \in RightChannels : GateStage(rate, rightChannel)
  \/ \E signal \in StageSignals, filter \in StageKernels : ConvolveStage(signal, filter)
  \/ \E b \in MonoInputs : EncodeCall(b)
  \/ \E b \in MonoInputs \cup StereoInputs : DecodeCall(b)

Spec == Init /\ [][Next]_vars

(***************************************************************************)
(* The handlers of the page: taps, timers and asynchronous completions     *)
(***************************************************************************)
\* what a recording or a selected file decodes to
UiInputs == {AudioBuffer(<<<<>>>>, SAMPLE_RATE), AudioBuffer(<<<<D(5, -1), D(-1, 0)>>>>, SAMPLE_RATE)}

\* handleTap
HandleTap ==
  /\ ui.taps < MaxTaps
  /\ ~Disabled(variant, state)
  /\ IF HasRealtime(variant) /\ state = "realtime"
       THEN ui' = stopRealtime(Tapped(ui)) /\ state' = "idle"
     ELSE IF HasRealtime(variant) /\ ui.now - ui.lastTap < DoubleTapWindow /\ state = "idle"
       THEN ui' = startRealtime(Tapped(ui)) /\ state' = state
     ELSE IF state = "idle"
       THEN ui' = [Tapped(ui) EXCEPT !.timers = Append(@, ui.now + TimerDelay)] /\ state' = state
     ELSE IF state = "recording"
       THEN ui' = stopRecording(Tapped(ui)) /\ state' = state
     ELSE IF state = "playing"
       THEN ui' = stopPlayback(Tapped(ui)) /\ state' = "idle"
     ELSE ui' = Tapped(ui) /\ state' = state
  /\ pc' = IF state = "playing" THEN StoppedFile(ui, pc) ELSE pc
  /\ UNCHANGED <<variant, audioBuffer, result, processedBuffer, mode, law, kernel, rt, wav, tone, norm, stage>>

\* where the clock stands after a step: at the next timer when one falls due
\* within the step
ClockAfter(u, step) ==
  IF u.timers # <<>> /\ Head(u.timers) < u.now + step THEN Head(u.timers) ELSE u.now + step

\* time passes: a short step just after a tap, or a long one; the clock
\* does not pass a timer that is due
TickClock(step) ==
  /\ step = TickMs => ui.now - ui.lastTap < 2 * TickMs
  /\ IF ui.timers = <<>> THEN TRUE ELSE Head(ui.timers) > ui.now
  /\ ClockAfter(ui, step) <= MaxTime
  /\ ui' = [ui EXCEPT !.now = ClockAfter(ui, step)]
  /\ UNCHANGED <<variant, pc, audioBuffer, result, state, processedBuffer, mode, law, kernel, rt, wav, tone, norm, stage>>

\* the callback handleTap passed to setTimeout
TimerFires ==
  /\ ui.timers # <<>>
  /\ Head(ui.timers) <= ui.now
  /\ ui' = IF ui.now - ui.lastTap >= TapThreshold
           THEN startRecording([ui EXCEPT !.timers = Tail(@)])
           ELSE [ui EXCEPT !.timers = Tail(@)]
  /\ UNCHANGED <<variant, pc, audioBuffer, result, state, processedBuffer, mode, law, kernel, rt, wav, tone, norm, stage>>

\* getUserMedia resolves: the rest of startRecording or of startRealtime
MicGranted(i) ==
  /\ ui.sessions[i].pc = "getUserMedia"
  /\ IF ui.sessions[i].kind = "recorder"
     THEN /\ ui' = [ui EXCEPT !.sessions[i].pc = "recording", !.mediaRecorderRef = i]
          /\ state' = "recording"
     ELSE /\ ui' = [ui EXCEPT !.sessions[i].pc = "active", !.realtimeRef = i]
          /\ state' = "realtime"
  /\ UNCHANGED <<variant, pc, audioBuffer, result, processedBuffer, mode, law, kernel, rt, wav, tone, norm, stage>>

\* getUserMedia rejects: the catch block
MicDenied(i) ==
  /\ ui.sessions[i].pc = "getUserMedia"
  /\ ui' = [ui EXCEPT !.sessions[i].pc = "denied"]
  /\ UNCHANGED <<variant, pc, audioBuffer, result, state, processedBuffer, mode, law, kernel, rt, wav, tone, norm, stage>>

\* mediaRecorder.onstop up to its first await
OnStop(i) ==
  /\ ui.sessions[i].pc = "stopping"
  /\ ui' = [ui EXCEPT !.sessions[i].pc = "decode"]
  /\ state' = "processing"
  /\ UNCHANGED <<variant, pc, audioBuffer, result, processedBuffer, mode, law, kernel, rt, wav, tone, norm, stage>>

\* what encodeAudio returns or throws for each recording, by variant
Encoded == [v \in Variants, b \in UiInputs |-> encodeAudio(v, b)]

\* what decodeAudio returns or throws for each file, by variant
Decoded == [v \in Variants, b \in UiInputs |-> decodeAudio(v, b)]

\* onstop after decodeAudioData: encodeAudio, then the upload (or playback
\* where there is no upload); nothing catches what encodeAudio throws
OnStopEncoded(i, b) ==
  /\ ui.sessions[i].pc = "decode"
  /\ IF Encoded[variant, b].threw # "none"
     THEN /\ ui' = [ui EXCEPT !.sessions[i].pc = "rejected"]
          /\ UNCHANGED <<state, processedBuffer, mode>>
     ELSE /\ ui' = [ui EXCEPT !.sessions[i].pc = IF HasUpload(variant) THEN "upload" ELSE "playing",
                               !.encodedBy = i, !.blobUrl = 0,
                               !.sourceRef = IF HasUpload(variant) THEN @ ELSE i]
          /\ state' = IF HasUpload(variant) THEN "uploading" ELSE "playing"
          /\ processedBuffer' = Encoded[variant, b].buffer
          /\ mode' = "encode"
  /\ UNCHANGED <<variant, pc, audioBuffer, result, law, kernel, rt, wav, tone, norm, stage>>

\* the rest of handleFileSelect for a file of UiInputs: FileDecoded, with
\* decodeAudio read from the table
FileCompleted ==
  /\ pc = "file"
  /\ AfterDecode(Decoded[variant, audioBuffer])
  /\ pc' = "handled"
  /\ UNCHANGED <<variant, audioBuffer, law, kernel, rt, wav, tone, norm, stage>>

\* onstop after uploadToBlob, which returns a url or null and never throws
Uploaded(i, url) ==
  /\ ui.sessions[i].pc = "upload"
  /\ ui' = [ui EXCEPT !.sessions[i].pc = "playing", !.sourceRef = i,
                      !.blobUrl = IF url THEN i ELSE @]
  /\ state' = "playing"
  /\ UNCHANGED <<variant, pc, audioBuffer, result, processedBuffer, mode, law, kernel, rt, wav, tone, norm, stage>>

\* src.onended of the source onstop started
SourceEnded(i) ==
  /\ ui.sessions[i].pc = "playing"
  /\ ui' = [ui EXCEPT !.sessions[i].pc = "done"]
  /\ state' = "idle"
  /\ UNCHANGED <<variant, pc, audioBuffer, result, processedBuffer, mode, law, kernel, rt, wav, tone, norm, stage>>

\* src.onended of the source handleFileSelect started
FileSourceEnded ==
  /\ pc = "handled"
  /\ result.threw = "none"
  /\ state' = "idle"
  /\ pc' = "ended"
  /\ UNCHANGED <<variant, audioBuffer, result, processedBuffer, mode, law, kernel, rt, wav, tone, norm, ui, stage>>

NextUI ==
  \/ HandleTap
  \/ \E step \in {TickMs, TimerDelay} : TickClock(step)
  \/ TimerFires
  \/ \E i \in 1..Len(ui.sessions) : MicGranted(i)
  \/ \E i \in 1..Len(ui.sessions) : MicDenied(i)
  \/ \E i \in 1..Len(ui.sessions) : OnStop(i)
  \/ \E i \in 1..Len(ui.sessions), b \in UiInputs : OnStopEncoded(i, b)
  \/ \E i \in 1..Len(ui.sessions), url \in BOOLEAN : Uploaded(i, url)
  \/ \E i \in 1..Len(ui.sessions) : SourceEnded(i)
  \/ \E b \in UiInputs : HandleFileSelect(b)
  \/ FileDecoded
  \/ FileSourceEnded

SpecUI == Init /\ [][NextUI]_vars

\* what happens without the user: the clock, timer callbacks, getUserMedia
\* settling, the stop event, decoding, encoding, the upload and the end of
\* playback
Completion ==
  \/ \E step \in {TickMs, TimerDelay} : TickClock(step)
  \/ TimerFires
  \/ \E i \in 1..Len(ui.sessions) : MicGranted(i) \/ MicDenied(i)
  \/ \E i \in 1..Len(ui.sessions) : OnStop(i)
  \/ \E i \in 1..Len(ui.sessions), b \in UiInputs : OnStopEncoded(i, b)
  \/ \E i \in 1..Len(ui.sessions), url \in BOOLEAN : Uploaded(i, url)
  \/ \E i \in 1..Len(ui.sessions) : SourceEnded(i)
  \/ FileCompleted
  \/ FileSourceEnded

\* the event loop runs every callback that is due and every promise settles:
\* each session advances a bounded number of times, so weak fairness of the
\* union lets every pending completion happen; taps and file selections are
\* left to the user
SpecUILive == SpecUI /\ WF_vars(Completion)

(***************************************************************************)
(* Properties                                                              *)
(***************************************************************************)
\* the voice handed to encodeAudio or decodeAudio
Voice == getChannelData(audioBuffer, 0)

\* voice[i] * 0.9 / peak(voice)
ScaledVoice(voice, peak) ==
  Float32Array(Len(voice), LAMBDA i: FDiv(FMul(At(voice, i), D(9, -1)), peak))

\* C1: in the secondary-channel variant, decodeAudio applied to what
\* encodeAudio returned for a voice of non-zero peak passes the channel-2
\* energy gate and returns voice[i] * 0.9 / peak(voice) exactly; it never
\* falls through to the DSP reconstruction of channel 1.
C1_SecondaryRoundTripExact ==
  (variant = "stereo" /\ pc = "roundtrip" /\ FGt(MaxAbs(Voice), Zero))
    => /\ result.path = "secondary"
       /\ getChannelData(result.buffer, 0) = ScaledVoice(Voice, MaxAbs(Voice))

\* the gates as decodeAudio evaluates them on the buffer it was handed
UltrasonicGate(b) == FGt(UltrasonicEnergy(b, Ultrasonic(b)), D(1, -4))

PhaseGate(b) == FGt(Energy(PhaseDemod(b), b.length, b.sampleRate), D(1, -4))

\* the first strategy, in the order given, whose gate passes
FirstPassing(order, gates, otherwise) ==
  IF gates[order[1]] THEN order[1] ELSE IF gates[order[2]] THEN order[2] ELSE otherwise

\* C2 (as the code has it): every decoder tries its own embedding first and
\* the secondary channel after it.  The ultrasonic decoder returns the
\* ultrasonic extraction when the ultrasonic gate passes, else the
\* peak-normalised channel 2 when the secondary gate passes, else the
\* reconstruction; the phase decoder returns the phase extraction, else the
\* peak-normalised channel 2, else silence; only the secondary-channel
\* decoder consults channel 2 first.
C2_OwnStrategyFirst ==
  pc = "decoded" =>
    /\ variant = "ultra" =>
          result.path = FirstPassing(<<"ultrasonic", "secondary">>,
                                     [ultrasonic |-> UltrasonicGate(audioBuffer),
                                      secondary |-> SecondaryGate(audioBuffer, audioBuffer.sampleRate)],
                                     "dsp")
    /\ variant = "phase" =>
          result.path = FirstPassing(<<"phase", "secondary">>,
                                     [phase |-> PhaseGate(audioBuffer),
                                      secondary |-> SecondaryGate(audioBuffer, audioBuffer.sampleRate)],
                                     "silence")
    /\ variant = "stereo" =>
          result.path = IF SecondaryGate(audioBuffer, 44100) THEN "secondary" ELSE "dsp"
    /\ (result.path = "secondary" /\ result.threw = "none") =>
          getChannelData(result.buffer, 0) = Amplify(getChannelData(audioBuffer, 1))

\* a stereo buffer on which both the ultrasonic and the secondary gate pass
\* has been decoded by the ultrasonic decoder, which returned the
\* ultrasonic extraction
C2_BothGatesPass ==
  /\ variant = "ultra"
  /\ pc = "decoded"
  /\ SecondaryGate(audioBuffer, audioBuffer.sampleRate)
  /\ UltrasonicGate(audioBuffer)
  /\ result.path = "ultrasonic"

\* C2 (as stated): in the decoders that detect embeddings, whenever the
\* input has a second channel whose energy over the first second exceeds
\* the secondary threshold, decodeAudio returns the peak-normalised
\* channel 2, whatever the ultrasonic or phase gate decides on channel 1.
C2_SecondaryChannelFirst ==
  (pc = "decoded" /\ variant \in {"stereo", "ultra", "phase"}
     /\ SecondaryGate(audioBuffer, audioBuffer.sampleRate))
    => /\ result.path = "secondary"
       /\ getChannelData(result.buffer, 0) = Amplify(getChannelData(audioBuffer, 1))

\* no embedding gate of the running decoder passes on b
NoGatePasses(v, b) ==
  CASE v = "stereo" -> ~SecondaryGate(b, 44100)
    [] v = "ultra" -> ~UltrasonicGate(b) /\ ~SecondaryGate(b, b.sampleRate)
    [] v = "phase" -> ~PhaseGate(b) /\ ~SecondaryGate(b, b.sampleRate)
    [] OTHER -> FALSE

\* C3: in every decoder that detects embeddings, when no gate passes
\* decodeAudio returns the signal-processing reconstruction computed from
\* channel 1 (strategy 4), not a silent or empty buffer.
C3_FallsBackToReconstruction ==
  (pc = "decoded" /\ audioBuffer.length >= 1 /\ NoGatePasses(variant, audioBuffer))
    => result.buffer = Fallback(audioBuffer).buffer

\* |a - b| <= |b| / 100: equal up to the rounding of the arithmetic
Close(a, b) == FLe(FAbs(FSub(a, b)), FDiv(FAbs(b), FromInt(100)))

\* C4: for a contour value x whose carrier advance per sample,
\* x * (2 PI / rate) * FSCALE * PHASE_MULT, lies strictly inside (-PI, PI),
\* the phase increment the decoder derives from that advance equals x, in
\* every variant.
C4_InverseLaw ==
  (pc = "law" /\ FLt(FAbs(law.advance), PI)) => Close(law.increment, law.x)

\* C5: after any number of callbacks, the Hilbert and the 140 Hz lowpass
\* outputs the realtime callback computed sample by sample equal convolve()
\* applied to the same sample sequence with the same kernels (zero outside
\* the stream), so that no ring slot read holds data of an earlier lap.
C5_RealtimeEqualsOffline ==
  (pc = "realtime" /\ rt.callbacks >= 1)
    => /\ rt.hilbertOut = convolve(rt.stream, rtHilbert)
       /\ rt.filteredIOut = convolve(rt.shiftedIOut, rtLpf140)

\* every sample of a has magnitude at most limit
Within(a, limit) == \A k \in 1..Len(a) : FLe(FAbs(a[k]), limit)

\* C6: every sample of every channel encodeAudio returns, in every variant,
\* and every sample of every output block of the realtime callback, has
\* magnitude at most 1 (at most 0.95 in the ultrasonic variant).
C6_OutputWithinUnity ==
  /\ (pc = "encoded" /\ result.threw = "none")
       => \A c \in 1..result.buffer.numberOfChannels :
            Within(result.buffer.channels[c], IF variant = "ultra" THEN D(95, -2) ELSE One)
  /\ pc = "realtime" => Within(rt.output, One)

\* every sample of every channel of buffer b is a finite number
AllFinite(b) ==
  \A c \in 1..b.numberOfChannels : \A k \in 1..Len(b.channels[c]) : IsFinite(b.channels[c][k])

\* C7: for an input of one or more finite samples, an all-zero and a
\* single-sample buffer included, every sample encodeAudio and decodeAudio
\* return is finite.
C7_OutputsFinite ==
  (pc \in {"encoded", "decoded"} /\ audioBuffer.length >= 1 /\ result.threw = "none")
    => AllFinite(result.buffer)

\* C8: for a zero-length input, encodeAudio and decodeAudio complete
\* without an error and return a zero-length buffer of the input's sample
\* rate and channel count.
C8_EmptyInEmptyOut ==
  (pc \in {"encoded", "decoded"} /\ audioBuffer.length = 0)
    => /\ result.threw = "none"
       /\ result.buffer.length = 0
       /\ result.buffer.sampleRate = audioBuffer.sampleRate
       /\ result.buffer.numberOfChannels = audioBuffer.numberOfChannels

\* the parameters the constructors were called with are invalid: an even
\* length, a length below 3 or, for the sinc filter, a cutoff that is not
\* positive or not below half the sample rate
InvalidParameters(k) ==
  \/ k.length % 2 = 0
  \/ k.length < 3
  \/ k.kind = "sinc" /\ (FLe(k.cutoffHz, Zero) \/ ~FLt(FMul(k.cutoffHz, Two), FromInt(SAMPLE_RATE)))

\* C9: createSincFilter and createHilbertFilter signal an error, and return
\* no kernel, when called with invalid parameters.
C9_InvalidParametersRejected ==
  (pc = "filter" /\ InvalidParameters(kernel))
    => kernel.threw # "none" /\ kernel.filter = <<>>

\* every sample of every channel of buffer b is zero
Silent(b) ==
  \A c \in 1..b.numberOfChannels : \A k \in 1..Len(b.channels[c]) : b.channels[c][k] = Zero

\* C10: when no embedding gate passes and nothing was recovered (decodeAudio
\* returned without throwing, and what it returned is silence),
\* handleFileSelect can tell, and does not go on to play the result as a
\* normal decode.
C10_NoVoiceNotPlayed ==
  (pc = "handled" /\ audioBuffer.length >= 1 /\ NoGatePasses(variant, audioBuffer)
     /\ result.threw = "none" /\ Silent(result.buffer))
    => ~(state = "playing" /\ mode = "decode" /\ processedBuffer = result.buffer)

\* the secondary-channel encoder has returned a buffer for a voice of
\* non-zero peak
StereoEncoded ==
  variant = "stereo" /\ pc = "encoded" /\ result.threw = "none" /\ FGt(MaxAbs(Voice), Zero)

\* C11 (as the code has it): in the secondary-channel encoder, for a voice
\* of non-zero peak p, channel 2 is the unfiltered input times
\* HIDDEN_AMPLITUDE / p, so its peak is HIDDEN_AMPLITUDE = 0.001 whatever
\* p is.
C11_HiddenPeakIsAmplitude ==
  StereoEncoded
    => /\ MaxAbs(getChannelData(result.buffer, 1)) = HIDDEN_AMPLITUDE
       /\ getChannelData(result.buffer, 1)
            = Float32Array(Len(Voice), LAMBDA i: FDiv(FMul(At(Voice, i), HIDDEN_AMPLITUDE), MaxAbs(Voice)))

\* a voice of peak 0.5 has been encoded, and channel 2 peaks at 0.001
C11_HalfScaleVoice ==
  /\ StereoEncoded
  /\ MaxAbs(Voice) = D(5, -1)
  /\ MaxAbs(getChannelData(result.buffer, 1)) = HIDDEN_AMPLITUDE

\* C11 (as stated): in the secondary-channel encoder, for a voice of
\* non-zero peak p, the peak of channel 2 equals 0.001 * p.
C11_HiddenPeakFollowsVoice ==
  StereoEncoded
    => MaxAbs(getChannelData(result.buffer, 1)) = FMul(HIDDEN_AMPLITUDE, MaxAbs(Voice))

\* a[i] / b[i] is the same ratio at every index (cross-multiplied)
Proportional(a, b) ==
  /\ Len(a) = Len(b)
  /\ \A i, j \in 0..(Len(a) - 1) : FMul(At(a, i), At(b, j)) = FMul(At(a, j), At(b, i))

\* different values of a stay different in b
Distinguishes(a, b) ==
  \A i, j \in 0..(Len(a) - 1) : At(a, i) # At(a, j) => At(b, i) # At(b, j)

\* C12: in the secondary-channel variant, a voice of non-zero peak that is
\* encoded, written by audioBufferToWav as 16-bit PCM, read back as
\* int16 / 32768 and decoded comes back exactly proportional to the voice,
\* and two different voice values never come back as the same value.
C12_LosslessThroughFile ==
  (variant = "stereo" /\ pc = "reloaded" /\ FGt(MaxAbs(Voice), Zero))
    => /\ result.threw = "none"
       /\ Proportional(getChannelData(result.buffer, 0), Voice)
       /\ Distinguishes(Voice, getChannelData(result.buffer, 0))

\* |x - y| <= 0.01: equal up to the error of Math.sin, Math.cos and
\* Math.atan2 as modelled
Near(x, y) == FLe(FAbs(FSub(x, y)), D(1, -2))

\* the FM demodulator has been applied to the tone exp(j w i), 0 < w < PI
ToneDemodulated == pc = "tone" /\ FGt(tone.w, Zero) /\ FLt(tone.w, PI)

\* C13 (as the code has it): on I[i] = cos(w i), Q[i] = sin(w i) with
\* 0 < w < PI, atan2(I[i] Q[i-1] - Q[i] I[i-1], I[i] I[i-1] + Q[i] Q[i-1])
\* is -w for every i >= 1: the magnitude of w with the opposite sign.
C13_ToneDemodulatesToMinusW ==
  ToneDemodulated
    => \A i \in 1..(Len(tone.freq) - 1) :
         FLt(At(tone.freq, i), Zero) /\ Near(At(tone.freq, i), FNeg(tone.w))

\* the tone of 1 radian per sample has been demodulated to a negative value
C13_UnitToneDemodulated ==
  ToneDemodulated /\ tone.w = One /\ Len(tone.freq) >= 2 /\ FLt(At(tone.freq, 1), Zero)

\* C13 (as stated): on I[i] = cos(w i), Q[i] = sin(w i) with 0 < w < PI the
\* FM demodulator yields freq[i] = w, the same sign and magnitude, for
\* every i >= 1.
C13_ToneDemodulatesToW ==
  ToneDemodulated
    => \A i \in 1..(Len(tone.freq) - 1) : Near(At(tone.freq, i), tone.w)

\* fmDemod as encodeAudio computes it for the voice it was given
EncoderContour ==
  FmDemod(variant,
          Baseband(variant, Voice, convolve(Voice, createHilbertFilter(Cap(129))),
                   createSincFilter(FromInt(140), Cap(1025), audioBuffer.sampleRate)))

\* C14: in every variant, for a signal of two samples or more, the
\* frequency contour has the length of the signal and its element 0 equals
\* its element 1: both the contour encodeAudio computes for its input and
\* the contour the demodulator stage computes for a complex tone.
C14_ContourFirstCopiesSecond ==
  /\ (pc = "encoded" /\ audioBuffer.length >= 2)
       => /\ Len(EncoderContour) = audioBuffer.length
          /\ At(EncoderContour, 0) = At(EncoderContour, 1)
  /\ (pc = "tone" /\ Len(tone.I) >= 2)
       => /\ Len(tone.freq) = Len(tone.I)
          /\ At(tone.freq, 0) = At(tone.freq, 1)

\* handleDownload has written the buffer encodeAudio returned
Downloaded == pc = "downloaded"

\* the header fields of a 16-bit PCM file of n frames, c channels, rate r
WavHeaderIs(bytes, n, c, r) ==
  /\ SubSeq(bytes, 1, 4) = <<82, 73, 70, 70>>
  /\ ReadUint(bytes, 4, 4) = 36 + 2 * n * c
  /\ SubSeq(bytes, 9, 16) = <<87, 65, 86, 69, 102, 109, 116, 32>>
  /\ ReadUint(bytes, 16, 4) = 16
  /\ ReadUint(bytes, 20, 2) = 1
  /\ ReadUint(bytes, 22, 2) = c
  /\ ReadUint(bytes, 24, 4) = r
  /\ ReadUint(bytes, 28, 4) = 2 * r * c
  /\ ReadUint(bytes, 32, 2) = 2 * c
  /\ ReadUint(bytes, 34, 2) = 16
  /\ SubSeq(bytes, 37, 40) = <<100, 97, 116, 97>>
  /\ ReadUint(bytes, 40, 4) = 2 * n * c

\* the 16-bit value stored for sample s: inside [-32768, 32767], full scale
\* for |s| >= 1, and s scaled by 32768 (s < 0) or 32767 truncated otherwise
StoredAs(s, v) ==
  /\ v \in -32768..32767
  /\ FLe(One, s) => v = 32767
  /\ FLe(s, D(-1, 0)) => v = -32768
  /\ v = Pcm16(Clamp(s))

OddHilbertKernel ==
  pc = "filter" /\ kernel.kind = "hilbert" /\ kernel.threw = "none"
    /\ kernel.length >= 3 /\ kernel.length % 2 = 1

\* C16: for every odd length >= 3, every tap of createHilbertFilter at an
\* even offset from the centre tap, the centre included, is exactly 0.
C16_EvenOffsetTapsZero ==
  OddHilbertKernel
    => /\ Len(kernel.filter) = kernel.length
       /\ \A i \in 0..(kernel.length - 1) :
            (i - (kernel.length \div 2)) % 2 = 0 => At(kernel.filter, i) = Zero

\* a five-tap kernel has been built: even offsets -2, 0, 2 and non-zero
\* taps at the odd offsets
C16_FiveTapKernel ==
  /\ OddHilbertKernel
  /\ kernel.length = 5
  /\ At(kernel.filter, 1) # Zero
  /\ At(kernel.filter, 3) # Zero

\* C17: peak normalisation applied to a buffer whose peak already equals
\* the target leaves every sample unchanged, and the final limiter of the
\* ultrasonic encoder applied to a buffer that is already within its limit
\* (peak <= 0.95) leaves every sample unchanged.
C17_NormalisationIdempotent ==
  pc = "normalized"
    => /\ (norm.kind = "peak" /\ MaxAbs(norm.input) = norm.target) => norm.output = norm.input
       /\ (norm.kind = "limiter" /\ FLe(MaxAbs(norm.input), norm.target)) => norm.output = norm.input

\* both normalisers have met a buffer they must leave alone: a buffer of
\* several levels already at the target peak
C17_AlreadyNormalised ==
  /\ pc = "normalized"
  /\ Len(norm.input) >= 2
  /\ \E i \in 0..(Len(norm.input) - 1) : FAbs(At(norm.input, i)) \notin {Zero, norm.target}
  /\ \/ norm.kind = "peak" /\ MaxAbs(norm.input) = norm.target
     \/ norm.kind = "limiter" /\ MaxAbs(norm.input) = norm.target

\* a step in which startRecording is entered
StartRecordingEntered ==
  /\ Len(ui'.sessions) > Len(ui.sessions)
  /\ ui'.sessions[Len(ui'.sessions)].kind = "recorder"

\* C18: under any interleaving of taps, file selections, timer expiries and
\* asynchronous completions, startRecording is entered only while the UI
\* state is "idle": the timer a tap armed in "idle" never starts a recording
\* after the state has moved on to "processing", "uploading", "playing" or
\* "recording".
C18_RecordingStartsFromIdle == [][StartRecordingEntered => state = "idle"]_vars

\* the session holds the microphone: a recorder from start() until onstop
\* stops the tracks, a realtime processor while connected
Capturing(session) ==
  \/ session.kind = "recorder" /\ session.pc \in {"recording", "stopping"}
  \/ session.kind = "realtime" /\ session.pc = "active"

\* C19: at most one microphone capture session is active at any time (no
\* two MediaRecorder sessions, no MediaRecorder together with a realtime
\* processor), and the ref needed to stop an active session still holds it.
C19_OneCaptureSession ==
  /\ Cardinality({i \in 1..Len(ui.sessions) : Capturing(ui.sessions[i])}) <= 1
  /\ \A i \in 1..Len(ui.sessions) :
       /\ (ui.sessions[i].kind = "recorder" /\ ui.sessions[i].pc = "recording")
            => ui.mediaRecorderRef = i
       /\ (ui.sessions[i].kind = "realtime" /\ ui.sessions[i].pc = "active")
            => ui.realtimeRef = i

\* C20: whenever the UI state becomes "processing" or "uploading" it
\* eventually returns to "idle", playback ending eventually, also when
\* decoding, encoding or the upload fails, on the onstop path and on the
\* file-selection path.
C20_ProcessingReturnsToIdle == (state \in {"processing", "uploading"}) ~> (state = "idle")

\* the sources that were started and have neither ended nor been stopped:
\* i for the one onstop of session i started, -1 for handleFileSelect's
PlayingSources ==
  {i \in 1..Len(ui.sessions) : ui.sessions[i].pc = "playing"}
    \cup (IF pc = "handled" /\ result.threw = "none" THEN {-1} ELSE {})

\* C21: whenever the UI state is "idle" no source the page started is still
\* playing, and every source that plays is the one sourceRef holds, so that
\* stopPlayback stops it: no earlier source keeps running out of reach or
\* ends under a later one.
C21_NoSourceOutOfReach ==
  /\ state = "idle" => PlayingSources = {}
  /\ PlayingSources \subseteq {ui.sourceRef}

\* C22: whenever blobUrl is non-null it is the url the upload of the buffer
\* in processedBuffer returned: processedBuffer and mode are those of the
\* encode whose upload produced the url, never those of a later result.
C22_BlobUrlOfProcessedBuffer ==
  ui.blobUrl # 0 => mode = "encode" /\ ui.encodedBy = ui.blobUrl

\* the positions the sample loop of the next callback writes at
WritePositions == {Remainder(rt.writePos + i, bufferSize) : i \in 0..(BlockSize - 1)}

\* C23: the capacity 8192 is at least the longest kernel (257) plus one
\* processing block (4096), and after any number of callbacks writePos and
\* every index used to read or write a history buffer lie in [0, bufferSize).
C23_RingIndicesInRange ==
  /\ Capacity >= LongestKernel + ProcessingBlock
  /\ rt.writePos \in 0..(bufferSize - 1)
  /\ WritePositions \subseteq 0..(bufferSize - 1)
  /\ \A filter \in {rtHilbert, rtLpf140, rtLpf70} : \A pos \in WritePositions :
        \A j \in 0..(Len(filter) - 1) : RingIndex(Len(filter), pos, j) \in 0..(bufferSize - 1)

\* the write position has wrapped round to the start and the next callback's
\* ring sums reach back across the start of the buffer
C23_WrappedAround ==
  /\ rt.running
  /\ rt.callbacks >= 2
  /\ rt.writePos = 0
  /\ \E j \in 0..(Len(rtLpf140) - 1) : RingIndexUnwrapped(Len(rtLpf140), 0, j) < 0
  /\ \E j \in 0..(Len(rtLpf140) - 1) : RingIndex(Len(rtLpf140), 0, j) = bufferSize - 1

\* x and y differ by no more than the rounding of a few stored sums
Rounded(x, y) == FLe(FAbs(FSub(x, y)), D(2, -2))

\* unwrapped[i] - unwrapped[i-1] and raw[i] - raw[i-1]
Increment(a, i) == FSub(At(a, i), At(a, i - 1))

\* raw[i] - raw[i-1] moved by k turns
Turned(raw, i, k) == FAdd(Increment(raw, i), FMul(FromInt(k), TwoPI))

\* C24: unwrapped[0] = raw[0], and for every i >= 1 unwrapped[i] is
\* unwrapped[i-1] plus an increment that lies in the half-open interval
\* (-PI, PI] and differs from raw[i] - raw[i-1] by an integer multiple of
\* 2 PI; the stored difference unwrapped[i] - unwrapped[i-1] is that increment
\* up to the rounding of the stored sums.
C24_UnwrappedIncrements ==
  stage.name = "unwrap"
    => /\ Len(stage.output) = Len(stage.input)
       /\ At(stage.output, 0) = At(stage.input, 0)
       /\ \A i \in 1..(Len(stage.input) - 1) :
            \E k \in {-1, 0, 1} :
              /\ FGt(Turned(stage.input, i, k), FNeg(PI))
              /\ FLe(Turned(stage.input, i, k), PI)
              /\ At(stage.output, i) = FAdd(At(stage.output, i - 1), Turned(stage.input, i, k))
              /\ Rounded(Increment(stage.output, i), Turned(stage.input, i, k))

\* a totalPhase that jumps up by more than PI and then down by more than PI
\* has been unwrapped
C24_BothWrapsTaken ==
  /\ stage.name = "unwrap"
  /\ Len(stage.input) = 3
  /\ FGt(Increment(stage.input, 1), PI)
  /\ FLt(Increment(stage.input, 2), FNeg(PI))
  /\ FLt(Increment(stage.output, 1), Zero)
  /\ FGt(Increment(stage.output, 2), Zero)

\* C25: for every value the phase accumulator can hold, negative ones
\* included, the sawtooth (phase mod 2 PI) / PI - 1 lies in [-1, 1).
C25_SawWithinUnit ==
  stage.name = "saw"
    => \A i \in 1..(Len(stage.output) - 1) :
         FLe(D(-1, 0), At(stage.output, i)) /\ FLt(At(stage.output, i), One)

\* contour[clamp(i - 2 + j, 0, length - 1)] for j = 0..4
ClampedWindow(contour, i) ==
  [j \in 0..4 |-> At(contour, Max(0, Min(Len(contour) - 1, i - 2 + j)))]

\* x is not above y (a value is level with itself, NaN included)
NotAbove(x, y) == x = y \/ FLe(x, y)

\* m is the third smallest of the five values of window
ThirdSmallest(m, window) ==
  /\ \E j \in 0..4 : window[j] = m
  /\ Cardinality({j \in 0..4 : NotAbove(window[j], m)}) >= 3
  /\ Cardinality({j \in 0..4 : NotAbove(m, window[j])}) >= 3

\* the median filter has run and every output is the median of its window
MedianOfWindows ==
  /\ Len(stage.output) = Len(stage.input)
  /\ \A i \in 0..(Len(stage.input) - 1) :
       /\ ThirdSmallest(At(stage.output, i), ClampedWindow(stage.input, i))
       /\ \E k \in 0..(Len(stage.input) - 1) : At(stage.output, i) = At(stage.input, k)

\* contour is constant except for the single sample at p
Spiked(contour, p) ==
  /\ Len(contour) >= 3
  /\ At(contour, p) # At(contour, IF p = 0 THEN 1 ELSE 0)
  /\ \A i \in 0..(Len(contour) - 1) : i # p => At(contour, i) = At(contour, IF p = 0 THEN 1 ELSE 0)

\* every sample of contour has the value contour holds away from p
Flat(contour, p) ==
  \A i \in 0..(Len(contour) - 1) : At(contour, i) = At(contour, IF p = 0 THEN 1 ELSE 0)

ZeroPadded(signal, idx) == IF idx >= 0 /\ idx < Len(signal) THEN At(signal, idx) ELSE Zero

RECURSIVE CentredSum(_, _, _, _)
\* the sum over taps 0..j of signal[i - mid + j] * kernel[j], mid = floor(length / 2)
CentredSum(signal, taps, i, j) ==
  IF j < 0 THEN Zero
  ELSE FAdd(CentredSum(signal, taps, i, j - 1),
            FMul(ZeroPadded(signal, i - (Len(taps) \div 2) + j), At(taps, j)))

\* 1 at the centre tap and 0 elsewhere
UnitKernel(taps) ==
  \A j \in 0..(Len(taps) - 1) : At(taps, j) = IF j = Len(taps) \div 2 THEN One ELSE Zero

\* C27: for any signal and any odd-length kernel, convolve returns a buffer
\* of the signal's length whose sample i is the sum over j of
\* signal[i - mid + j] * kernel[j], samples outside the signal counting as 0;
\* a kernel that is 1 at its centre and 0 elsewhere returns the signal.
C27_ConvolveCentred ==
  stage.name = "convolve" /\ Len(stage.kernel) % 2 = 1
    => /\ Len(stage.output) = Len(stage.input)
       /\ \A i \in 0..(Len(stage.input) - 1) :
            At(stage.output, i) = CentredSum(stage.input, stage.kernel, i, Len(stage.kernel) - 1)
       /\ UnitKernel(stage.kernel) => stage.output = stage.input

\* a unit kernel longer than the signal, reaching past both of its ends, has
\* been applied to a signal that is not silent at either end
C27_KernelAcrossBothEnds ==
  /\ stage.name = "convolve"
  /\ Len(stage.kernel) = 5
  /\ Len(stage.input) = 3
  /\ At(stage.input, 0) # Zero /\ At(stage.input, 2) # Zero
  /\ UnitKernel(stage.kernel)
  /\ stage.output = stage.input

RECURSIVE SumOf(_, _)
\* a[0] + a[1] + ... + a[n - 1], added in that order
SumOf(a, n) == IF n <= 0 THEN Zero ELSE IF n = 1 THEN At(a, 0) ELSE FAdd(SumOf(a, n - 1), At(a, n - 1))

\* a synthesis loop has run
LoopHasRun == stage.name \in {"synthesis", "sine", "saw", "realtime"}

\* C28: in every synthesis loop (offline encode, offline decode, realtime)
\* the accumulator after the last sample is the value it started from plus
\* the increments of all samples, added in order and never reduced modulo
\* 2 PI: it leaves [0, 2 PI) whenever that sum does.
C28_AccumulatorNeverWrapped ==
  LoopHasRun => At(stage.output, 0) = SumOf(stage.input, Len(stage.input))

\* the encoder's loop and the realtime step have carried an accumulator
\* beyond one turn, and a decoder's loop has carried a negative one
C28_BeyondOneTurn ==
  /\ stage.name \in {"synthesis", "realtime"}
  /\ FLt(At(stage.input, 0), TwoPI)
  /\ FGt(At(stage.output, 0), TwoPI)
  /\ FGt(At(stage.input, 1), Zero)

\* C29: in every decoder variant that has the secondary-channel gate and
\* for every sample rate, the gate measures the first min(length, sampleRate)
\* samples of channel 2, the first second of the input, and passes exactly
\* when the mean square of those samples is above the threshold.
C29_GateOverFirstSecond ==
  stage.name = "gate"
    => /\ At(stage.output, 0) = Min(At(stage.input, 1), At(stage.input, 0))
       /\ At(stage.output, 1) =
            FGt(RunsEnergy(stage.kernel, Min(At(stage.input, 1), At(stage.input, 0))), D(1, -7))

\* encodeAudio or decodeAudio has been followed array by array
Called == stage.name \in {"encodeAudio", "decodeAudio"}

\* C30: after encodeAudio and after decodeAudio every sample of every
\* channel of the input buffer has the value it had before the call, and
\* every array a statement of the call wrote to was allocated in that call.
C30_InputUnchanged ==
  Called
    => /\ \A c \in 1..Len(stage.input) :
            stage.output[1].heap[ChannelObject(c - 1)] = stage.input[c]
       /\ stage.output[1].written \subseteq stage.output[1].allocated

\* encodeAudio has returned a buffer for an input that is not silent, after
\* convolving the input, with a result that differs from it, and after
\* scaling birdsong and output where they lie
C30_WrittenInPlace ==
  /\ stage.name = "encodeAudio"
  /\ "outputBuffer" \in stage.output[1].allocated
  /\ stage.output[1].heap["imagPart"] # stage.input[1]
  /\ stage.output[1].heap["bandlimitedVoice"] # stage.input[1]
  /\ stage.output[1].heap["output"] # stage.output[1].heap["birdsong"]

====
